---- MODULE Spec2Model ----
(***************************************************************************)
(* LPML compiler (javanhut/LPML): token model, recursive-descent parser,   *)
(* two-pass HTML generator and the command line driver, as a state machine.*)
(*                                                                         *)
(* The parser reads the token stream the lexer hands out one NextToken     *)
(* call at a time; its call stack (ParseDocument > parsePageSection >      *)
(* parseElement > parseElement ...) is the variable pstack and every loop  *)
(* iteration of the three parsing loops is one action.  The generator's    *)
(* recursion over the tree is the task stack gstack; strings are TLA+      *)
(* strings built with \o, the output is the sequence of lines written.     *)
(***************************************************************************)
EXTENDS Integers, Sequences, FiniteSets, TLC

VARIABLES
    source,      \* lexer.input, as the sequence of lexemes it tokenizes to
    lexPos,      \* number of lexemes the lexer has consumed (Lexer.position)
    curToken,    \* Parser.curToken
    peekToken,   \* Parser.peekToken
    errors,      \* Parser.errors
    pstack,      \* activation records of parsePageSection / parseElement
    doc,         \* the ast.Document under construction / returned
    ppc,         \* "parsing" while ParseDocument runs, then "done"
    tagLog,      \* history: one entry per opened tag when its parse call returns
    mpc,         \* position of main()
    reported,    \* error lines main printed
    exitCode,    \* process exit status (-1 while running)
    outputFile,  \* content of the output file, NoFile when not written
    queue,       \* documents still to be passed to Generate
    labels,      \* Generator.labels
    indent,      \* Generator.indent
    out,         \* lines written to Generate's strings.Builder so far
    gstack,      \* pending work of the running Generate call
    gpc,         \* "idle" | "render" | "fatal"
    results,     \* strings returned by the Generate calls so far
    lexer,       \* the Lexer: input, position, readPosition, ch, line, column
    returned     \* history: the tokens NextToken returned, with their extent

parVars == <<source, lexPos, curToken, peekToken, errors, pstack, doc, ppc, tagLog>>
mainVars == <<mpc, reported, exitCode, outputFile>>
genVars == <<queue, labels, indent, out, gstack, gpc, results>>
lexVars == <<lexer, returned>>
vars == <<parVars, mainVars, genVars, lexVars>>

(***************************************************************************)
(* Bounds of the model.                                                    *)
(***************************************************************************)
MaxLen == 4          \* longest source, in lexemes
StackLimit == 3      \* resolveValue frames the goroutine stack can hold
MaxFormats == 2      \* longest format_with array of the generated documents
MaxItems == 3        \* longest items array of the generated lists
MaxChars == 4        \* longest input of the lexer, in characters
MaxEOF == 2          \* NextToken calls that return EOF
MaxArray == 3    \* lexemes after the opening bracket of an array

(***************************************************************************)
(* tokens                                                                  *)
(***************************************************************************)
ILLEGAL == "ILLEGAL"
EOF == "EOF"
LBRACKET == "["
RBRACKET == "]"
EQUALS == "="
DOLLAR == "$"
COMMA == ","
STRING_TOK == "STRING"   \* tokens.STRING (STRING is a TLA+ keyword)
NUMBER == "NUMBER"
IDENT == "IDENT"
CODEBLOCK == "CODEBLOCK"

keywords ==
    [n \in {"top-of-page-start"} |-> "TOP_OF_PAGE_START"] @@
    [n \in {"top-of-page-end"} |-> "TOP_OF_PAGE_END"] @@
    [n \in {"mid-page-start"} |-> "MID_PAGE_START"] @@
    [n \in {"mid-page-end"} |-> "MID_PAGE_END"] @@
    [n \in {"bottom-of-page-start"} |-> "BOTTOM_OF_PAGE_START"] @@
    [n \in {"bottom-of-page-end"} |-> "BOTTOM_OF_PAGE_END"] @@
    [n \in {"divide-start"} |-> "DIVIDE_START"] @@
    [n \in {"p-start"} |-> "P_START"] @@
    [n \in {"h-start"} |-> "H_START"] @@
    [n \in {"link-start"} |-> "LINK_START"] @@
    [n \in {"img-start"} |-> "IMG_START"] @@
    [n \in {"list-start"} |-> "LIST_START"] @@
    [n \in {"lst-ord"} |-> "LIST_ORD_START"] @@
    [n \in {"lst-unord"} |-> "LIST_UNORD_START"] @@
    [n \in {"item-start"} |-> "ITEM_START"] @@
    [n \in {"table-start"} |-> "TABLE_START"] @@
    [n \in {"row-start"} |-> "ROW_START"] @@
    [n \in {"cell-start"} |-> "CELL_START"] @@
    [n \in {"form-start"} |-> "FORM_START"] @@
    [n \in {"input-start"} |-> "INPUT_START"] @@
    [n \in {"btn-start"} |-> "BTN_START"] @@
    [n \in {"bold-start"} |-> "BOLD_START"] @@
    [n \in {"italic-start"} |-> "ITALIC_START"] @@
    [n \in {"code-start"} |-> "CODE_START"] @@
    [n \in {"divide-end"} |-> "DIVIDE_END"] @@
    [n \in {"p-end"} |-> "P_END"] @@
    [n \in {"h-end"} |-> "H_END"] @@
    [n \in {"link-end"} |-> "LINK_END"] @@
    [n \in {"img-end"} |-> "IMG_END"] @@
    [n \in {"list-end"} |-> "LIST_END"] @@
    [n \in {"lst-end"} |-> "LIST_ORD_END"] @@
    [n \in {"item-end"} |-> "ITEM_END"] @@
    [n \in {"table-end"} |-> "TABLE_END"] @@
    [n \in {"row-end"} |-> "ROW_END"] @@
    [n \in {"cell-end"} |-> "CELL_END"] @@
    [n \in {"form-end"} |-> "FORM_END"] @@
    [n \in {"input-end"} |-> "INPUT_END"] @@
    [n \in {"btn-end"} |-> "BTN_END"] @@
    [n \in {"bold-end"} |-> "BOLD_END"] @@
    [n \in {"italic-end"} |-> "ITALIC_END"] @@
    [n \in {"code-end"} |-> "CODE_END"]

LookUpIdent(ident) ==
    IF ident \in DOMAIN keywords THEN keywords[ident] ELSE IDENT

OpeningTags ==
    {"TOP_OF_PAGE_START", "MID_PAGE_START", "BOTTOM_OF_PAGE_START",
     "DIVIDE_START", "P_START", "H_START", "LINK_START", "IMG_START",
     "LIST_START", "LIST_ORD_START", "LIST_UNORD_START", "ITEM_START",
     "TABLE_START", "ROW_START", "CELL_START",
     "FORM_START", "INPUT_START", "BTN_START", "BOLD_START", "ITALIC_START",
     "CODE_START"}

IsOpeningTag(t) == t \in OpeningTags

IsClosingTag(t) ==
    t \in {"TOP_OF_PAGE_END", "MID_PAGE_END", "BOTTOM_OF_PAGE_END",
           "DIVIDE_END", "P_END", "H_END", "LINK_END", "IMG_END",
           "LIST_END", "LIST_ORD_END", "LIST_UNORD_END", "ITEM_END",
           "TABLE_END", "ROW_END", "CELL_END",
           "FORM_END", "INPUT_END", "BTN_END", "BOLD_END", "ITALIC_END",
           "CODE_END"}

\* Faulty variant: the paragraph's closing tag is taken from the neighbouring case.
GetMatchingClose_swapped(open) ==
    CASE open = "TOP_OF_PAGE_START" -> "TOP_OF_PAGE_END"
      [] open = "MID_PAGE_START" -> "MID_PAGE_END"
      [] open = "BOTTOM_OF_PAGE_START" -> "BOTTOM_OF_PAGE_END"
      [] open = "DIVIDE_START" -> "DIVIDE_END"
      [] open = "P_START" -> "DIVIDE_END"
      [] open = "H_START" -> "H_END"
      [] open = "LINK_START" -> "LINK_END"
      [] open = "IMG_START" -> "IMG_END"
      [] open = "LIST_START" -> "LIST_END"
      [] open = "LIST_ORD_START" -> "LIST_ORD_END"
      [] open = "LIST_UNORD_START" -> "LIST_UNORD_END"
      [] open = "ITEM_START" -> "ITEM_END"
      [] open = "TABLE_START" -> "TABLE_END"
      [] open = "ROW_START" -> "ROW_END"
      [] open = "CELL_START" -> "CELL_END"
      [] open = "FORM_START" -> "FORM_END"
      [] open = "INPUT_START" -> "INPUT_END"
      [] open = "BTN_START" -> "BTN_END"
      [] open = "BOLD_START" -> "BOLD_END"
      [] open = "ITALIC_START" -> "ITALIC_END"
      [] open = "CODE_START" -> "CODE_END"
      [] OTHER -> ILLEGAL

GetMatchingClose(open) ==
    CASE open = "TOP_OF_PAGE_START" -> "TOP_OF_PAGE_END"
      [] open = "MID_PAGE_START" -> "MID_PAGE_END"
      [] open = "BOTTOM_OF_PAGE_START" -> "BOTTOM_OF_PAGE_END"
      [] open = "DIVIDE_START" -> "DIVIDE_END"
      [] open = "P_START" -> "P_END"
      [] open = "H_START" -> "H_END"
      [] open = "LINK_START" -> "LINK_END"
      [] open = "IMG_START" -> "IMG_END"
      [] open = "LIST_START" -> "LIST_END"
      [] open = "LIST_ORD_START" -> "LIST_ORD_END"
      [] open = "LIST_UNORD_START" -> "LIST_UNORD_END"
      [] open = "ITEM_START" -> "ITEM_END"
      [] open = "TABLE_START" -> "TABLE_END"
      [] open = "ROW_START" -> "ROW_END"
      [] open = "CELL_START" -> "CELL_END"
      [] open = "FORM_START" -> "FORM_END"
      [] open = "INPUT_START" -> "INPUT_END"
      [] open = "BTN_START" -> "BTN_END"
      [] open = "BOLD_START" -> "BOLD_END"
      [] open = "ITALIC_START" -> "ITALIC_END"
      [] open = "CODE_START" -> "CODE_END"
      [] OTHER -> ILLEGAL

(***************************************************************************)
(* ast                                                                     *)
(***************************************************************************)
GetTagName(t) ==
    CASE t \in {"DIVIDE_START", "DIVIDE_END"} -> "divide"
      [] t \in {"P_START", "P_END"} -> "p"
      [] t \in {"H_START", "H_END"} -> "h"
      [] t \in {"LINK_START", "LINK_END"} -> "link"
      [] t \in {"IMG_START", "IMG_END"} -> "img"
      [] t \in {"LIST_START", "LIST_END"} -> "list"
      [] t \in {"LIST_ORD_START", "LIST_ORD_END"} -> "lst-ord"
      [] t \in {"LIST_UNORD_START", "LIST_UNORD_END"} -> "lst-unord"
      [] t \in {"ITEM_START", "ITEM_END"} -> "item"
      [] t \in {"TABLE_START", "TABLE_END"} -> "table"
      [] t \in {"ROW_START", "ROW_END"} -> "row"
      [] t \in {"CELL_START", "CELL_END"} -> "cell"
      [] t \in {"FORM_START", "FORM_END"} -> "form"
      [] t \in {"INPUT_START", "INPUT_END"} -> "input"
      [] t \in {"BTN_START", "BTN_END"} -> "btn"
      [] t \in {"BOLD_START", "BOLD_END"} -> "bold"
      [] t \in {"ITALIC_START", "ITALIC_END"} -> "italic"
      [] t \in {"CODE_START", "CODE_END"} -> "code"
      [] t \in {"TOP_OF_PAGE_START", "TOP_OF_PAGE_END"} -> "top-of-page"
      [] t \in {"MID_PAGE_START", "MID_PAGE_END"} -> "mid-page"
      [] t \in {"BOTTOM_OF_PAGE_START", "BOTTOM_OF_PAGE_END"} -> "bottom-of-page"
      [] OTHER -> ""

\* Faulty variant: the bottom section is given the kind of the mid section.
GetSectionType_bottomAsMid(t) ==
    CASE t = "TOP_OF_PAGE_START" -> "top"
      [] t = "MID_PAGE_START" -> "mid"
      [] t = "BOTTOM_OF_PAGE_START" -> "mid"
      [] OTHER -> ""

GetSectionType(t) ==
    CASE t = "TOP_OF_PAGE_START" -> "top"
      [] t = "MID_PAGE_START" -> "mid"
      [] t = "BOTTOM_OF_PAGE_START" -> "bottom"
      [] OTHER -> ""

IsPageSection(t) ==
    t \in {"TOP_OF_PAGE_START", "MID_PAGE_START", "BOTTOM_OF_PAGE_START"}

\* The ast.Value variants.
StringValue(s) == [kind |-> "StringValue", Value |-> s]
NumberValue(s) == [kind |-> "NumberValue", Value |-> s]
VariableRef(n) == [kind |-> "VariableRef", Name |-> n]
ArrayValue(vs) == [kind |-> "ArrayValue", Values |-> vs]
CodeBlockValue(c) == [kind |-> "CodeBlockValue", Content |-> c]
\* a nil ast.Value
NilValue == [kind |-> "nil"]

\* An empty map[string]ast.Value.
NoProperties == [n \in {} |-> NilValue]

Element(tag, props, children, line) ==
    [TagType |-> tag, Properties |-> props, Children |-> children, Line |-> line]

PageSection(type, children) == [Type |-> type, Children |-> children]

(***************************************************************************)
(* lexer, seen from the parser: one token per NextToken call               *)
(***************************************************************************)
\* Lexemes of the source text; a bracketed tag carries its name.
Tag(name) == [lex |-> "tag", text |-> name]
Ident(name) == [lex |-> "ident", text |-> name]
Str(s) == [lex |-> "string", text |-> s]
Num(s) == [lex |-> "number", text |-> s]
Var(s) == [lex |-> "dollar", text |-> s]
Punct(c) == [lex |-> "punct", text |-> c]
Code(s) == [lex |-> "codeblock", text |-> s]

Token(type, literal, col) ==
    [Type |-> type, Literal |-> literal, Line |-> 1, Column |-> col]

\* The token NextToken returns for the lexeme at position i of the source.
TokenOf(lx, i) ==
    CASE lx.lex = "tag" -> Token(LookUpIdent(lx.text), lx.text, i)
      [] lx.lex = "ident" -> Token(IDENT, lx.text, i)
      [] lx.lex = "string" -> Token(STRING_TOK, lx.text, i)
      [] lx.lex = "number" -> Token(NUMBER, lx.text, i)
      [] lx.lex = "dollar" -> Token(DOLLAR, lx.text, i)
      [] lx.lex = "codeblock" -> Token(CODEBLOCK, lx.text, i)
      [] lx.lex = "punct" ->
           Token(IF lx.text \in {"[", "]", "=", ","} THEN lx.text ELSE ILLEGAL,
                 lx.text, i)

\* NextToken: the token at the lexer position, EOF for ever at end of input.
NextToken(src, pos) ==
    IF pos < Len(src)
    THEN [tok |-> TokenOf(src[pos + 1], pos + 1), pos |-> pos + 1]
    ELSE [tok |-> Token(EOF, "", Len(src) + 1), pos |-> pos]

(***************************************************************************)
(* parser                                                                  *)
(***************************************************************************)
\* The parser state the parsing functions pass along: p.curToken,
\* p.peekToken, the lexer position and p.errors.
PState(cur, peek, pos, errs) ==
    [cur |-> cur, peek |-> peek, pos |-> pos, errors |-> errs]

nextToken(ps) ==
    LET nt == NextToken(source, ps.pos)
    IN  [ps EXCEPT !.cur = ps.peek, !.peek = nt.tok, !.pos = nt.pos]

addError(ps, msg) == [ps EXCEPT !.errors = Append(ps.errors, msg)]

\* parser.New: two nextToken calls on a parser with no tokens and no errors.
NewParser ==
    nextToken(nextToken(PState(Token("", "", 0), Token("", "", 0), 0, <<>>)))

\* Faulty variant: the special case for the two list kinds is missing.
isMatchingClose_general(open, close) == close = GetMatchingClose(open)

isMatchingClose(open, close) ==
    IF /\ open \in {"LIST_ORD_START", "LIST_UNORD_START"}
       /\ close \in {"LIST_ORD_END", "LIST_UNORD_END"}
    THEN TRUE
    ELSE close = GetMatchingClose(open)

\* Faulty variant: a code block inside the array is kept as a value.
RECURSIVE parseArrayLoop_codeKept(_, _)
parseArrayLoop_codeKept(ps, vals) ==
    IF ps.cur.Type = RBRACKET \/ ps.cur.Type = EOF
    THEN [ps |-> ps, vals |-> vals]
    ELSE CASE ps.cur.Type = STRING_TOK ->
                parseArrayLoop_codeKept(nextToken(ps),
                                        Append(vals, StringValue(ps.cur.Literal)))
           [] ps.cur.Type = NUMBER ->
                parseArrayLoop_codeKept(nextToken(ps),
                                        Append(vals, NumberValue(ps.cur.Literal)))
           [] ps.cur.Type = DOLLAR ->
                parseArrayLoop_codeKept(nextToken(ps),
                                        Append(vals, VariableRef(ps.cur.Literal)))
           [] ps.cur.Type = CODEBLOCK ->
                parseArrayLoop_codeKept(nextToken(ps),
                                        Append(vals, CodeBlockValue(ps.cur.Literal)))
           [] OTHER -> parseArrayLoop_codeKept(nextToken(ps), vals)

\* The loop of parseArray; returns the parser state and the values kept.
RECURSIVE parseArrayLoop(_, _)
parseArrayLoop(ps, vals) ==
    IF ps.cur.Type = RBRACKET \/ ps.cur.Type = EOF
    THEN [ps |-> ps, vals |-> vals]
    ELSE CASE ps.cur.Type = STRING_TOK ->
                parseArrayLoop(nextToken(ps), Append(vals, StringValue(ps.cur.Literal)))
           [] ps.cur.Type = NUMBER ->
                parseArrayLoop(nextToken(ps), Append(vals, NumberValue(ps.cur.Literal)))
           [] ps.cur.Type = DOLLAR ->
                parseArrayLoop(nextToken(ps), Append(vals, VariableRef(ps.cur.Literal)))
           [] ps.cur.Type = COMMA -> parseArrayLoop(nextToken(ps), vals)
           [] OTHER -> parseArrayLoop(nextToken(ps), vals)

parseArray(ps) ==
    LET r == parseArrayLoop(nextToken(ps), <<>>)
    IN  [ps |-> IF r.ps.cur.Type = RBRACKET THEN nextToken(r.ps) ELSE r.ps,
         val |-> ArrayValue(r.vals)]

parseValue(ps, propName) ==
    CASE ps.cur.Type = STRING_TOK ->
           [ps |-> nextToken(ps), val |-> StringValue(ps.cur.Literal)]
      [] ps.cur.Type = NUMBER ->
           [ps |-> nextToken(ps), val |-> NumberValue(ps.cur.Literal)]
      [] ps.cur.Type = DOLLAR ->
           [ps |-> nextToken(ps), val |-> VariableRef(ps.cur.Literal)]
      [] ps.cur.Type = LBRACKET -> parseArray(ps)
      [] ps.cur.Type = CODEBLOCK ->
           [ps |-> nextToken(ps), val |-> CodeBlockValue(ps.cur.Literal)]
      [] OTHER ->
           [ps |-> addError(ps, "expected value for property " \o propName
                                 \o ", got " \o ps.cur.Type),
            val |-> NilValue]

\* elem.Properties[propName] = value
SetProperty(props, name, value) ==
    [n \in DOMAIN props \cup {name} |-> IF n = name THEN value ELSE props[n]]

\* Faulty variant: the token found in place of '=' is passed over as well.
parseProperty_skipping(ps, props) ==
    LET propName == ps.cur.Literal
        p1 == nextToken(ps)
    IN  IF p1.cur.Type # EQUALS
        THEN [ps |-> nextToken(addError(p1, "expected '=' after property name " \o propName
                                   \o ", got " \o p1.cur.Type)),
              props |-> props]
        ELSE LET r == parseValue(nextToken(p1), propName)
             IN  [ps |-> r.ps,
                  props |-> IF r.val # NilValue
                            THEN SetProperty(props, propName, r.val)
                            ELSE props]

\* Faulty variant: on a missing '=' the property name is not passed.
parseProperty_stuck(ps, props) ==
    LET propName == ps.cur.Literal
        p1 == nextToken(ps)
    IN  IF p1.cur.Type # EQUALS
        THEN [ps |-> addError(ps, "expected '=' after property name " \o propName
                                   \o ", got " \o p1.cur.Type),
              props |-> props]
        ELSE LET r == parseValue(nextToken(p1), propName)
             IN  [ps |-> r.ps,
                  props |-> IF r.val # NilValue
                            THEN SetProperty(props, propName, r.val)
                            ELSE props]

\* parseProperty on the element with properties props; returns the parser
\* state and the element's properties.
parseProperty(ps, props) ==
    LET propName == ps.cur.Literal
        p1 == nextToken(ps)
    IN  IF p1.cur.Type # EQUALS
        THEN [ps |-> addError(p1, "expected '=' after property name " \o propName
                                   \o ", got " \o p1.cur.Type),
              props |-> props]
        ELSE LET r == parseValue(nextToken(p1), propName)
             IN  [ps |-> r.ps,
                  props |-> IF r.val # NilValue
                            THEN SetProperty(props, propName, r.val)
                            ELSE props]

\* The parser's fields as one record, and their assignment.
PS == PState(curToken, peekToken, lexPos, errors)

SetPS(ps) ==
    /\ curToken' = ps.cur
    /\ peekToken' = ps.peek
    /\ lexPos' = ps.pos
    /\ errors' = ps.errors

\* Activation record of parsePageSection or parseElement: the function, the
\* opening tag's type and column, and the node it is building.
Frame(fn, tok, node) ==
    [fn |-> fn, openingType |-> tok.Type, openCol |-> tok.Column, node |-> node]

Top == pstack[Len(pstack)]

Pop(stack) == SubSeq(stack, 1, Len(stack) - 1)

InFrame(fn) == ppc = "parsing" /\ Len(pstack) > 0 /\ Top.fn = fn

\* section.Children / elem.Children = append(..., child) in the caller's frame.
AppendChild(stack, child) ==
    [stack EXCEPT ![Len(stack)].node.Children = Append(@, child)]

\* History entry for an opened tag whose parse call returns.
LogEntry(frame, closed, tok) ==
    [fn |-> frame.fn, open |-> frame.openingType, openCol |-> frame.openCol,
     closed |-> closed, by |-> IF closed THEN tok.Type ELSE "",
     closeCol |-> IF closed THEN tok.Column ELSE 0]

\* ParseDocument, loop body: a page section starts (parsePageSection up to
\* its loop).
ParseDocument_section ==
    /\ ppc = "parsing" /\ pstack = <<>>
    /\ curToken.Type # EOF
    /\ IsPageSection(curToken.Type)
    /\ pstack' = <<Frame("parsePageSection", curToken,
                         PageSection(GetSectionType(curToken.Type), <<>>))>>
    /\ SetPS(nextToken(PS))
    /\ UNCHANGED <<source, doc, ppc, tagLog, mainVars, genVars, lexVars>>

\* ParseDocument, loop body: any other token is skipped.
ParseDocument_skip ==
    /\ ppc = "parsing" /\ pstack = <<>>
    /\ curToken.Type # EOF
    /\ ~IsPageSection(curToken.Type)
    /\ SetPS(nextToken(PS))
    /\ UNCHANGED <<source, pstack, doc, ppc, tagLog, mainVars, genVars, lexVars>>

\* ParseDocument returns the document; main goes on to check p.Errors().
ParseDocument_return ==
    /\ ppc = "parsing" /\ pstack = <<>>
    /\ curToken.Type = EOF
    /\ ppc' = "done"
    /\ mpc' = "check"
    /\ UNCHANGED <<source, lexPos, curToken, peekToken, errors, pstack, doc, tagLog,
                   reported, exitCode, outputFile, genVars, lexVars>>

\* parsePageSection's loop condition.
SectionLoopRuns ==
    /\ curToken.Type # GetMatchingClose(Top.openingType)
    /\ curToken.Type # EOF

\* parseElement's loop condition.
ElementLoopRuns ==
    /\ ~isMatchingClose(Top.openingType, curToken.Type)
    /\ curToken.Type # EOF

\* parseElement called on a token that opens nothing: skip it, return nil.
parseElement_nil ==
    /\ InFrame("parsePageSection")
    /\ SectionLoopRuns
    /\ ~IsOpeningTag(curToken.Type)
    /\ SetPS(nextToken(PS))
    /\ UNCHANGED <<source, pstack, doc, ppc, tagLog, mainVars, genVars, lexVars>>

\* parseElement called on an opening tag (as a section's child or as a nested
\* element): the element is created and the tag passed.
parseElement_open ==
    /\ ppc = "parsing" /\ Len(pstack) > 0
    /\ IF Top.fn = "parsePageSection" THEN SectionLoopRuns ELSE ElementLoopRuns
    /\ Top.fn = "parseElement" => curToken.Type # IDENT
    /\ IsOpeningTag(curToken.Type)
    /\ pstack' = Append(pstack,
                        Frame("parseElement", curToken,
                              Element(GetTagName(curToken.Type), NoProperties, <<>>,
                                      curToken.Line)))
    /\ SetPS(nextToken(PS))
    /\ UNCHANGED <<source, doc, ppc, tagLog, mainVars, genVars, lexVars>>

\* parseElement, loop body: an identifier starts a property assignment.
parseElement_property ==
    /\ InFrame("parseElement")
    /\ ElementLoopRuns
    /\ curToken.Type = IDENT
    /\ LET r == parseProperty(PS, Top.node.Properties)
       IN  /\ SetPS(r.ps)
           /\ pstack' = [pstack EXCEPT ![Len(pstack)].node.Properties = r.props]
    /\ UNCHANGED <<source, doc, ppc, tagLog, mainVars, genVars, lexVars>>

\* parseElement, loop body: any other token is skipped.
parseElement_skip ==
    /\ InFrame("parseElement")
    /\ ElementLoopRuns
    /\ curToken.Type # IDENT
    /\ ~IsOpeningTag(curToken.Type)
    /\ SetPS(nextToken(PS))
    /\ UNCHANGED <<source, pstack, doc, ppc, tagLog, mainVars, genVars, lexVars>>

\* parseElement after its loop: the closing tag is consumed, or the error is
\* recorded; the element goes to its caller, which appends it.
parseElement_return ==
    /\ InFrame("parseElement")
    /\ ~ElementLoopRuns
    /\ LET closed == isMatchingClose(Top.openingType, curToken.Type)
       IN  /\ SetPS(IF closed
                    THEN nextToken(PS)
                    ELSE addError(PS, "expected closing tag for element "
                                      \o Top.node.TagType \o " at line "
                                      \o ToString(Top.node.Line)))
           /\ tagLog' = Append(tagLog, LogEntry(Top, closed, curToken))
    /\ pstack' = AppendChild(Pop(pstack), Top.node)
    /\ UNCHANGED <<source, doc, ppc, mainVars, genVars, lexVars>>

\* parsePageSection after its loop; ParseDocument appends the section.
parsePageSection_return ==
    /\ InFrame("parsePageSection")
    /\ ~SectionLoopRuns
    /\ LET closed == curToken.Type = GetMatchingClose(Top.openingType)
       IN  /\ SetPS(IF closed
                    THEN nextToken(PS)
                    ELSE addError(PS, "expected closing tag for section "
                                      \o Top.node.Type))
           /\ tagLog' = Append(tagLog, LogEntry(Top, closed, curToken))
    /\ doc' = [Sections |-> Append(doc.Sections, Top.node)]
    /\ pstack' = Pop(pstack)
    /\ UNCHANGED <<source, ppc, mainVars, genVars, lexVars>>

ParserNext ==
    \/ ParseDocument_section
    \/ ParseDocument_skip
    \/ ParseDocument_return
    \/ parseElement_nil
    \/ parseElement_open
    \/ parseElement_property
    \/ parseElement_skip
    \/ parseElement_return
    \/ parsePageSection_return

(***************************************************************************)
(* generator: strings                                                      *)
(***************************************************************************)
\* strings.Repeat
RECURSIVE Repeat(_, _)
Repeat(s, n) == IF n <= 0 THEN "" ELSE s \o Repeat(s, n - 1)

\* What a resolution yields when the recursion of resolveValue and
\* getStringProp outgrows the goroutine stack: the Go runtime ends the
\* process with this message, nothing is returned.
Overflow == "fatal error: stack overflow"

\* strings.Join; a part that never returned makes the whole call not return.
RECURSIVE Join(_, _)
Join(parts, sep) ==
    IF Len(parts) = 0 THEN ""
    ELSE IF \E i \in 1..Len(parts) : parts[i] = Overflow THEN Overflow
    ELSE IF Len(parts) = 1 THEN parts[1]
    ELSE parts[1] \o sep \o Join(Tail(parts), sep)

\* Pieces the strings of the model are made of, for the substring and
\* suffix tests, which TLA+ strings do not offer.
Fragments == {"", "linear-", "(red, blue)", "img.png)", "radial-", "(#fff, #000)"}

\* strings.Contains, on strings made of Fragments around the substring.
StringsContains(s, substr) ==
    \E a \in Fragments, b \in Fragments : s = a \o substr \o b

\* strings.TrimSuffix, for s known to be one of prefixes or one of them
\* followed by suffix.
TrimSuffix(s, suffix, prefixes) ==
    IF \E q \in prefixes : q \o suffix = s
    THEN CHOOSE q \in prefixes : q \o suffix = s
    ELSE s

\* The characters of the code texts of the model.
CodeChars ==
    [t \in {""} |-> <<>>] @@
    [t \in {"x"} |-> <<"x">>] @@
    [t \in {"a<b"} |-> <<"a", "<", "b">>] @@
    [t \in {"a&&b"} |-> <<"a", "&", "&", "b">>] @@
    [t \in {"s=\"<&>\""} |-> <<"s", "=", "\"", "<", "&", ">", "\"">>]

\* strings.ReplaceAll of a one-character old, on a sequence of pieces.
ReplaceAll(chars, old, new) ==
    [i \in 1..Len(chars) |-> IF chars[i] = old THEN new ELSE chars[i]]

RECURSIVE Concat(_)
Concat(parts) == IF Len(parts) = 0 THEN "" ELSE parts[1] \o Concat(Tail(parts))

escapeHTML(t) ==
    Concat(ReplaceAll(ReplaceAll(ReplaceAll(ReplaceAll(CodeChars[t],
        "&", "&amp;"), "<", "&lt;"), ">", "&gt;"), "\"", "&quot;"))

(***************************************************************************)
(* generator: value resolution and labels                                  *)
(***************************************************************************)
RECURSIVE resolveValue(_, _, _)
RECURSIVE getStringProp(_, _, _, _)

\* getStringProp(elem, name) with the label registry lab, called with d
\* variable references being resolved further up the call stack.
getStringProp(elem, name, lab, d) ==
    IF name \in DOMAIN elem.Properties
    THEN resolveValue(elem.Properties[name], lab, d)
    ELSE ""

resolveValue(val, lab, d) ==
    CASE val.kind = "StringValue" -> val.Value
      [] val.kind = "NumberValue" -> val.Value
      [] val.kind = "VariableRef" ->
           IF val.Name \in DOMAIN lab
           THEN IF d >= StackLimit
                THEN Overflow
                ELSE getStringProp(lab[val.Name], "contains", lab, d + 1)
           ELSE "$" \o val.Name
      [] val.kind = "ArrayValue" ->
           Join([i \in 1..Len(val.Values) |-> resolveValue(val.Values[i], lab, d)], ", ")
      [] OTHER -> ""

\* An empty map[string]*ast.Element.
NoLabels == [n \in {} |-> Element("", NoProperties, <<>>, 0)]

\* Faulty variant: a label already registered is not overwritten.
SetLabel_keepFirst(lab, name, elem) ==
    [n \in DOMAIN lab \cup {name} |-> IF n \in DOMAIN lab THEN lab[n] ELSE elem]

\* g.labels[sv.Value] = elem
SetLabel(lab, name, elem) ==
    [n \in DOMAIN lab \cup {name} |-> IF n = name THEN elem ELSE lab[n]]

RECURSIVE collectElementLabels(_, _)
RECURSIVE collectChildren(_, _)

\* Faulty variant: an element is registered after its children.
collectElementLabels_childrenFirst(elem, lab) ==
    LET below == collectChildren(elem.Children, lab)
    IN  IF /\ "label" \in DOMAIN elem.Properties
           /\ elem.Properties["label"].kind = "StringValue"
        THEN SetLabel(below, elem.Properties["label"].Value, elem)
        ELSE below

collectElementLabels(elem, lab) ==
    LET own == IF /\ "label" \in DOMAIN elem.Properties
                  /\ elem.Properties["label"].kind = "StringValue"
               THEN SetLabel(lab, elem.Properties["label"].Value, elem)
               ELSE lab
    IN  collectChildren(elem.Children, own)

\* for _, child := range children { g.collectElementLabels(child) }
collectChildren(children, lab) ==
    IF Len(children) = 0 THEN lab
    ELSE collectChildren(Tail(children), collectElementLabels(children[1], lab))

RECURSIVE collectSections(_, _)
collectSections(sections, lab) ==
    IF Len(sections) = 0 THEN lab
    ELSE collectSections(Tail(sections), collectChildren(sections[1].Children, lab))

\* collectLabels(doc) on the registry lab the generator already holds.
collectLabels(d, lab) == collectSections(d.Sections, lab)

(***************************************************************************)
(* generator: inline styles                                                *)
(***************************************************************************)
resolveFontSize(size) ==
    CASE size = "tiny" -> "10px"
      [] size = "small" -> "12px"
      [] size = "normal" -> "16px"
      [] size = "medium" -> "20px"
      [] size = "large" -> "24px"
      [] size = "huge" -> "32px"
      [] size = "giant" -> "48px"
      [] OTHER -> size

\* Faulty variant: large spacing gets the value of the text size table.
resolveSpacing_large20(spacing) ==
    CASE spacing = "none" -> "0"
      [] spacing = "tiny" -> "4px"
      [] spacing = "small" -> "8px"
      [] spacing = "medium" -> "16px"
      [] spacing = "large" -> "20px"
      [] spacing = "huge" -> "32px"
      [] OTHER -> spacing

resolveSpacing(spacing) ==
    CASE spacing = "none" -> "0"
      [] spacing = "tiny" -> "4px"
      [] spacing = "small" -> "8px"
      [] spacing = "medium" -> "16px"
      [] spacing = "large" -> "24px"
      [] spacing = "huge" -> "32px"
      [] OTHER -> spacing

resolveBorder(border) ==
    CASE border = "thin" -> "1px solid #ccc"
      [] border = "medium" -> "2px solid #999"
      [] border = "thick" -> "3px solid #333"
      [] border = "none" -> "none"
      [] OTHER -> border

resolveRounded(rounded) ==
    CASE rounded = "none" -> "0"
      [] rounded = "small" -> "4px"
      [] rounded = "medium" -> "8px"
      [] rounded = "large" -> "16px"
      [] rounded = "full" -> "9999px"
      [] rounded = "circle" -> "50%"
      [] OTHER -> rounded

resolveShadow(shadow) ==
    CASE shadow = "none" -> "none"
      [] shadow = "small" -> "0 1px 3px rgba(0,0,0,0.12), 0 1px 2px rgba(0,0,0,0.24)"
      [] shadow = "medium" -> "0 3px 6px rgba(0,0,0,0.15), 0 2px 4px rgba(0,0,0,0.12)"
      [] shadow = "large" -> "0 10px 20px rgba(0,0,0,0.15), 0 3px 6px rgba(0,0,0,0.10)"
      [] shadow = "huge" -> "0 15px 25px rgba(0,0,0,0.15), 0 5px 10px rgba(0,0,0,0.05)"
      [] OTHER -> shadow

\* if cond { styles = append(styles, decl...) }
Decl(cond, decls) == IF cond THEN decls ELSE <<>>

\* Faulty variant: color is checked before text_color.
textColours_colorFirst(elem, lab) ==
    LET P(n) == getStringProp(elem, n, lab, 0)
    IN  Decl(P("color") # "", <<"color: " \o P("color")>>)
        \o Decl(P("text_color") # "", <<"color: " \o P("text_color")>>)

\* The first two checks of buildStyleAttr: text_color, then color.
textColours(elem, lab) ==
    LET P(n) == getStringProp(elem, n, lab, 0)
    IN  Decl(P("text_color") # "", <<"color: " \o P("text_color")>>)
        \o Decl(P("color") # "", <<"color: " \o P("color")>>)

\* The styles slice buildStyleAttr collects, in the order of its checks.
buildStyles(elem, lab) ==
    LET P(n) == getStringProp(elem, n, lab, 0)
    IN  textColours(elem, lab)
        \o Decl(P("bg_color") # "", <<"background-color: " \o P("bg_color")>>)
        \o Decl(P("background") # "",
                IF StringsContains(P("background"), "gradient")
                   \/ StringsContains(P("background"), "url(")
                THEN <<"background: " \o P("background")>>
                ELSE <<"background-color: " \o P("background")>>)
        \o Decl(P("text_size") # "", <<"font-size: " \o resolveFontSize(P("text_size"))>>)
        \o Decl(P("font") # "", <<"font-family: " \o P("font")>>)
        \o Decl(P("align") # "", <<"text-align: " \o P("align")>>)
        \o Decl(P("padding") # "", <<"padding: " \o resolveSpacing(P("padding"))>>)
        \o Decl(P("margin") # "", <<"margin: " \o resolveSpacing(P("margin"))>>)
        \o Decl(P("border") # "", <<"border: " \o resolveBorder(P("border"))>>)
        \o Decl(P("rounded") # "", <<"border-radius: " \o resolveRounded(P("rounded"))>>)
        \o Decl(P("shadow") # "", <<"box-shadow: " \o resolveShadow(P("shadow"))>>)
        \o Decl(P("width") # "", <<"width: " \o P("width")>>)
        \o Decl(P("height") # "", <<"height: " \o P("height")>>)
        \o Decl(P("line_spacing") # "", <<"line-height: " \o P("line_spacing")>>)
        \o Decl(P("display") # "", <<"display: " \o P("display")>>)
        \o Decl(P("center_content") = "true",
                <<"display: flex", "justify-content: center", "align-items: center">>)

buildStyleAttr(elem, lab) ==
    LET styles == buildStyles(elem, lab)
    IN  IF Len(styles) = 0
        THEN ""
        ELSE " style=\"" \o Join(styles, "; ") \o ";\""

\* The names buildStyleAttr passes to getStringProp.
StyleProps ==
    {"text_color", "color", "bg_color", "background", "text_size", "font",
     "align", "padding", "margin", "border", "rounded", "shadow", "width",
     "height", "line_spacing", "display", "center_content"}

(***************************************************************************)
(* generator: text formatting                                              *)
(***************************************************************************)
\* One iteration of applyFormatting's loop.
wrapFormat(format, content) ==
    CASE format = "bold" -> "<strong>" \o content \o "</strong>"
      [] format = "italic" -> "<em>" \o content \o "</em>"
      [] format = "underline" -> "<u>" \o content \o "</u>"
      [] format = "strike" -> "<s>" \o content \o "</s>"
      [] format = "code" -> "<code>" \o content \o "</code>"
      [] format = "mark" -> "<mark>" \o content \o "</mark>"
      [] OTHER -> content

\* Faulty variant: the wrappers are applied from the last item to the first.
RECURSIVE formatLoop_lastFirst(_, _, _, _)
formatLoop_lastFirst(items, i, content, lab) ==
    IF i > Len(items) THEN content
    ELSE wrapFormat(resolveValue(items[i], lab, 0),
                    formatLoop_lastFirst(items, i + 1, content, lab))

\* The loop of applyFormatting over arr.Values, from item i on.
RECURSIVE formatLoop(_, _, _, _)
formatLoop(items, i, content, lab) ==
    IF i > Len(items) THEN content
    ELSE formatLoop(items, i + 1, wrapFormat(resolveValue(items[i], lab, 0), content), lab)

applyFormatting(elem, content, lab) ==
    IF /\ "format_with" \in DOMAIN elem.Properties
       /\ elem.Properties["format_with"].kind = "ArrayValue"
    THEN formatLoop(elem.Properties["format_with"].Values, 1, content, lab)
    ELSE content

(***************************************************************************)
(* generator: elements                                                     *)
(*                                                                         *)
(* A generate function's result is the record of the lines it writes       *)
(* before its children, whether it renders its children (with g.indent     *)
(* incremented around them), and the line it writes after them.            *)
(***************************************************************************)
Leaf(line) == [open |-> <<line>>, descend |-> FALSE, close |-> ""]
Container(lines, closing) == [open |-> lines, descend |-> TRUE, close |-> closing]
Nothing == [open |-> <<>>, descend |-> FALSE, close |-> ""]

\* idAttr := ""; if id != "" { idAttr = fmt.Sprintf(" id=\"%s\"", id) }
idAttrOf(id) == IF id # "" THEN " id=\"" \o id \o "\"" ELSE ""

generateDiv(elem, ind, lab) ==
    LET id == getStringProp(elem, "label", lab, 0)
        class == getStringProp(elem, "class", lab, 0)
    IN  Container(<<ind \o "<div" \o idAttrOf(id)
                    \o (IF class # "" THEN " class=\"" \o class \o "\"" ELSE "")
                    \o buildStyleAttr(elem, lab) \o ">\n">>,
                  ind \o "</div>\n")

generateParagraph(elem, ind, lab) ==
    LET content == applyFormatting(elem, getStringProp(elem, "contains", lab, 0), lab)
        id == getStringProp(elem, "label", lab, 0)
    IN  Leaf(ind \o "<p" \o idAttrOf(id) \o buildStyleAttr(elem, lab) \o ">"
             \o content \o "</p>\n")

generateHeading(elem, ind, lab) ==
    LET content == applyFormatting(elem, getStringProp(elem, "contains", lab, 0), lab)
        id == getStringProp(elem, "label", lab, 0)
        size == getStringProp(elem, "size", lab, 0)
        lvl == getStringProp(elem, "level", lab, 0)
        level == IF lvl = "" THEN "1" ELSE lvl
        built == buildStyleAttr(elem, lab)
        body == " style=\"" \o Join(buildStyles(elem, lab), "; ") \o ";"
        styleAttr == IF size # "" /\ built = ""
                     THEN " style=\"font-size: " \o size \o ";\""
                     ELSE IF size # ""
                     THEN TrimSuffix(built, "\"", {body}) \o "; font-size: " \o size \o ";\""
                     ELSE built
    IN  Leaf(ind \o "<h" \o level \o idAttrOf(id) \o styleAttr \o ">"
             \o content \o "</h" \o level \o ">\n")

generateLink(elem, ind, lab) ==
    LET content == getStringProp(elem, "contains", lab, 0)
        linkUrl == getStringProp(elem, "link_url", lab, 0)
        href == IF linkUrl = "" THEN getStringProp(elem, "href", lab, 0) ELSE linkUrl
        id == getStringProp(elem, "label", lab, 0)
    IN  Leaf(ind \o "<a href=\"" \o href \o "\"" \o idAttrOf(id) \o ">"
             \o content \o "</a>\n")

generateImage(elem, ind, lab) ==
    LET src == getStringProp(elem, "src", lab, 0)
        alt == getStringProp(elem, "alt", lab, 0)
        id == getStringProp(elem, "label", lab, 0)
    IN  Leaf(ind \o "<img src=\"" \o src \o "\" alt=\"" \o alt \o "\""
             \o idAttrOf(id) \o ">\n")

\* Faulty variant: the items are written from the last to the first.
generateList_backwards(elem, n, ordered, lab) ==
    LET ind == Repeat("  ", n)
        listType == getStringProp(elem, "type", lab, 0)
        tag == IF listType = "ordered" THEN "ol"
               ELSE IF listType = "unordered" THEN "ul"
               ELSE IF ordered THEN "ol" ELSE "ul"
        id == getStringProp(elem, "label", lab, 0)
        childIndent == Repeat("  ", n + 1)
        items == IF /\ "items" \in DOMAIN elem.Properties
                    /\ elem.Properties["items"].kind = "ArrayValue"
                 THEN elem.Properties["items"].Values
                 ELSE <<>>
    IN  Container(<<ind \o "<" \o tag \o idAttrOf(id) \o ">\n">>
                  \o [i \in 1..Len(items) |->
                        childIndent \o "<li>" \o resolveValue(items[Len(items) + 1 - i], lab, 0)
                        \o "</li>\n"],
                  ind \o "</" \o tag \o ">\n")

\* generateList called with g.indent = n.
generateList(elem, n, ordered, lab) ==
    LET ind == Repeat("  ", n)
        listType == getStringProp(elem, "type", lab, 0)
        tag == IF listType = "ordered" THEN "ol"
               ELSE IF listType = "unordered" THEN "ul"
               ELSE IF ordered THEN "ol" ELSE "ul"
        id == getStringProp(elem, "label", lab, 0)
        childIndent == Repeat("  ", n + 1)
        items == IF /\ "items" \in DOMAIN elem.Properties
                    /\ elem.Properties["items"].kind = "ArrayValue"
                 THEN elem.Properties["items"].Values
                 ELSE <<>>
    IN  Container(<<ind \o "<" \o tag \o idAttrOf(id) \o ">\n">>
                  \o [i \in 1..Len(items) |->
                        childIndent \o "<li>" \o resolveValue(items[i], lab, 0)
                        \o "</li>\n"],
                  ind \o "</" \o tag \o ">\n")

generateListItem(elem, ind, lab) ==
    Leaf(ind \o "<li>" \o getStringProp(elem, "contains", lab, 0) \o "</li>\n")

generateTable(elem, ind, lab) ==
    Container(<<ind \o "<table" \o idAttrOf(getStringProp(elem, "label", lab, 0))
                \o ">\n">>,
              ind \o "</table>\n")

generateRow(elem, ind, lab) ==
    Container(<<ind \o "<tr>\n">>, ind \o "</tr>\n")

generateCell(elem, ind, lab) ==
    Leaf(ind \o "<td>" \o getStringProp(elem, "contains", lab, 0) \o "</td>\n")

generateForm(elem, ind, lab) ==
    LET action == getStringProp(elem, "action", lab, 0)
        id == getStringProp(elem, "label", lab, 0)
    IN  Container(<<ind \o "<form action=\"" \o action \o "\"" \o idAttrOf(id)
                    \o ">\n">>,
                  ind \o "</form>\n")

generateInput(elem, ind, lab) ==
    LET t == getStringProp(elem, "type", lab, 0)
        inputType == IF t = "" THEN "text" ELSE t
        name == getStringProp(elem, "name", lab, 0)
        id == getStringProp(elem, "label", lab, 0)
    IN  Leaf(ind \o "<input type=\"" \o inputType \o "\" name=\"" \o name \o "\""
             \o idAttrOf(id) \o ">\n")

generateButton(elem, ind, lab) ==
    LET content == getStringProp(elem, "contains", lab, 0)
        id == getStringProp(elem, "label", lab, 0)
    IN  Leaf(ind \o "<button" \o idAttrOf(id) \o ">" \o content \o "</button>\n")

generateBold(elem, ind, lab) ==
    Leaf(ind \o "<strong>" \o getStringProp(elem, "contains", lab, 0)
         \o "</strong>\n")

generateItalic(elem, ind, lab) ==
    Leaf(ind \o "<em>" \o getStringProp(elem, "contains", lab, 0) \o "</em>\n")

generateCode(elem, ind, lab) ==
    LET linkedFile == getStringProp(elem, "linked_file", lab, 0)
        fileType == getStringProp(elem, "file_type", lab, 0)
        codeContent == IF /\ "syntax" \in DOMAIN elem.Properties
                          /\ elem.Properties["syntax"].kind = "CodeBlockValue"
                       THEN elem.Properties["syntax"].Content
                       ELSE ""
        langClass == IF fileType # ""
                     THEN " class=\"language-" \o fileType \o "\""
                     ELSE ""
    IN  Leaf(ind \o "<pre><code" \o langClass \o ">"
             \o (IF linkedFile # "" THEN "/* File: " \o linkedFile \o " */\n" ELSE "")
             \o (IF codeContent # "" THEN escapeHTML(codeContent) ELSE "")
             \o "</code></pre>\n")

\* generateElement called with g.indent = n: the switch over elem.TagType.
generateElement(elem, n, lab) ==
    LET ind == Repeat("  ", n)
        t == elem.TagType
    IN  CASE t = "divide" -> generateDiv(elem, ind, lab)
          [] t = "p" -> generateParagraph(elem, ind, lab)
          [] t = "h" -> generateHeading(elem, ind, lab)
          [] t = "link" -> generateLink(elem, ind, lab)
          [] t = "img" -> generateImage(elem, ind, lab)
          [] t = "list" -> generateList(elem, n, FALSE, lab)
          [] t = "olist" -> generateList(elem, n, TRUE, lab)
          [] t = "lst-ord" -> generateList(elem, n, TRUE, lab)
          [] t = "lst-unord" -> generateList(elem, n, FALSE, lab)
          [] t = "item" -> generateListItem(elem, ind, lab)
          [] t = "table" -> generateTable(elem, ind, lab)
          [] t = "row" -> generateRow(elem, ind, lab)
          [] t = "cell" -> generateCell(elem, ind, lab)
          [] t = "form" -> generateForm(elem, ind, lab)
          [] t = "input" -> generateInput(elem, ind, lab)
          [] t = "btn" -> generateButton(elem, ind, lab)
          [] t = "bold" -> generateBold(elem, ind, lab)
          [] t = "italic" -> generateItalic(elem, ind, lab)
          [] t = "code" -> generateCode(elem, ind, lab)
          [] OTHER -> Nothing

\* The property names whose values the generate function of elem resolves
\* (getStringProp calls, and the items of format_with and items arrays).
PropsRead(elem, lab) ==
    LET t == elem.TagType
        arr(n) == IF /\ n \in DOMAIN elem.Properties
                     /\ elem.Properties[n].kind = "ArrayValue"
                  THEN {n} ELSE {}
    IN  CASE t = "divide" -> {"label", "class"} \cup StyleProps
          [] t = "p" -> {"contains", "label"} \cup arr("format_with") \cup StyleProps
          [] t = "h" -> {"contains", "label", "size", "level"} \cup arr("format_with")
                        \cup StyleProps
          [] t = "link" -> {"contains", "link_url", "label"}
                           \cup (IF getStringProp(elem, "link_url", lab, 0) = ""
                                 THEN {"href"} ELSE {})
          [] t = "img" -> {"src", "alt", "label"}
          [] t \in {"list", "olist", "lst-ord", "lst-unord"} ->
               {"type", "label"} \cup arr("items")
          [] t \in {"item", "cell", "bold", "italic"} -> {"contains"}
          [] t = "table" -> {"label"}
          [] t = "form" -> {"action", "label"}
          [] t = "input" -> {"type", "name", "label"}
          [] t = "btn" -> {"contains", "label"}
          [] t = "code" -> {"linked_file", "file_type"}
          [] OTHER -> {}

\* Rendering elem runs resolveValue into a recursion that never returns.
StackOverflows(elem, lab) ==
    \E n \in PropsRead(elem, lab) : getStringProp(elem, n, lab, 0) = Overflow

(***************************************************************************)
(* generator: Generate, as steps over the tree                             *)
(***************************************************************************)
Prologue ==
    <<"<!DOCTYPE html>\n", "<html>\n", "<head>\n",
      "  <title>LPML Document</title>\n", "  <style>\n",
      "    .top-of-page { }\n", "    .mid-page { }\n", "    .bottom-of-page { }\n",
      "  </style>\n", "</head>\n", "<body>\n">>

Epilogue == <<"</body>\n", "</html>\n">>

SectionTask(sec) == [op |-> "section", node |-> sec, line |-> ""]
ElementTask(elem) == [op |-> "element", node |-> elem, line |-> ""]
EndTask(op, line) == [op |-> op, node |-> Nothing, line |-> line]

\* for _, child := range children { sb.WriteString(g.generateNode(child)) }
ChildTasks(children) == [i \in 1..Len(children) |-> ElementTask(children[i])]

\* Faulty variant: the class of the mid section is built like the other two.
sectionClassName_uniform(type) == type \o "-of-page"

sectionClassName(type) == IF type = "mid" THEN "mid-page" ELSE type \o "-of-page"

\* Generate is called on the next document: labels are collected and the
\* head of the HTML document is written.
Generate_begin ==
    /\ gpc = "idle"
    /\ queue # <<>>
    /\ labels' = collectLabels(Head(queue), labels)
    /\ out' = Prologue
    /\ gstack' = [i \in 1..Len(Head(queue).Sections) |->
                    SectionTask(Head(queue).Sections[i])]
    /\ gpc' = "render"
    /\ UNCHANGED <<queue, indent, results, parVars, mainVars, lexVars>>

\* Faulty variant: the section adds to the counter instead of setting it.
sectionIndent_added(current) == current + 2

\* g.indent = 2
sectionIndent(current) == 2

\* generateSection up to its loop over the children.
generateSection_begin ==
    /\ gpc = "render" /\ gstack # <<>> /\ Head(gstack).op = "section"
    /\ out' = Append(out, "  <div class=\""
                          \o sectionClassName(Head(gstack).node.Type) \o "\">\n")
    /\ indent' = sectionIndent(indent)
    /\ gstack' = ChildTasks(Head(gstack).node.Children)
                 \o <<EndTask("endSection", "  </div>\n")>> \o Tail(gstack)
    /\ UNCHANGED <<queue, labels, gpc, results, parVars, mainVars, lexVars>>

\* generateSection after its loop.
generateSection_return ==
    /\ gpc = "render" /\ gstack # <<>> /\ Head(gstack).op = "endSection"
    /\ out' = Append(out, Head(gstack).line)
    /\ gstack' = Tail(gstack)
    /\ UNCHANGED <<queue, labels, indent, gpc, results, parVars, mainVars,
                   lexVars>>

\* generateNode / generateElement on the next child: a childless kind is
\* written whole, a kind with children up to its loop over them.
generateElement_call ==
    /\ gpc = "render" /\ gstack # <<>> /\ Head(gstack).op = "element"
    /\ LET elem == Head(gstack).node
           r == generateElement(elem, indent, labels)
       IN  IF StackOverflows(elem, labels)
           THEN /\ gpc' = "fatal"
                /\ UNCHANGED <<out, indent, gstack>>
           ELSE /\ gpc' = gpc
                /\ out' = out \o r.open
                /\ indent' = IF r.descend THEN indent + 1 ELSE indent
                /\ gstack' = IF r.descend
                             THEN ChildTasks(elem.Children)
                                  \o <<EndTask("endElement", r.close)>> \o Tail(gstack)
                             ELSE Tail(gstack)
    /\ UNCHANGED <<queue, labels, results, parVars, mainVars, lexVars>>

\* Faulty variant: the counter is not taken back after the children.
leaveChildren_kept(current) == current

\* g.indent--
leaveChildren(current) == current - 1

\* The end of generateDiv, generateList, generateTable, generateRow and
\* generateForm: g.indent-- and the closing tag.
generateElement_return ==
    /\ gpc = "render" /\ gstack # <<>> /\ Head(gstack).op = "endElement"
    /\ indent' = leaveChildren(indent)
    /\ out' = Append(out, Head(gstack).line)
    /\ gstack' = Tail(gstack)
    /\ UNCHANGED <<queue, labels, gpc, results, parVars, mainVars, lexVars>>

\* Generate returns sb.String().
Generate_return ==
    /\ gpc = "render" /\ gstack = <<>>
    /\ results' = Append(results, out \o Epilogue)
    /\ queue' = Tail(queue)
    /\ out' = <<>>
    /\ gpc' = "idle"
    /\ UNCHANGED <<labels, indent, gstack, parVars, mainVars, lexVars>>

GeneratorNext ==
    \/ Generate_begin
    \/ generateSection_begin
    \/ generateSection_return
    \/ generateElement_call
    \/ generateElement_return
    \/ Generate_return

(***************************************************************************)
(* main                                                                    *)
(***************************************************************************)
\* Faulty variant: a single error passes unnoticed.
HasErrors_moreThanOne(errs) == Len(errs) > 1

\* len(p.Errors()) > 0
HasErrors(errs) == Len(errs) > 0

NoFile == [written |-> FALSE, content |-> <<>>]

\* for _, e := range p.Errors() { fmt.Printf("  - %s\n", e) }, one iteration.
main_reportError ==
    /\ mpc = "check"
    /\ HasErrors(errors)
    /\ Len(reported) < Len(errors)
    /\ reported' = Append(reported, "  - " \o errors[Len(reported) + 1] \o "\n")
    /\ UNCHANGED <<mpc, exitCode, outputFile, parVars, genVars, lexVars>>

\* os.Exit(1) after the loop over the errors.
main_exit ==
    /\ mpc = "check"
    /\ HasErrors(errors)
    /\ Len(reported) = Len(errors)
    /\ exitCode' = 1
    /\ mpc' = "exited"
    /\ UNCHANGED <<reported, outputFile, parVars, genVars, lexVars>>

\* gen := generator.New(); html := gen.Generate(doc), up to the call.
main_generate ==
    /\ mpc = "check"
    /\ ~HasErrors(errors)
    /\ labels' = NoLabels
    /\ indent' = 0
    /\ queue' = <<doc>>
    /\ mpc' = "generate"
    /\ UNCHANGED <<reported, exitCode, outputFile, out, gstack, gpc, results, parVars,
                   lexVars>>

\* os.WriteFile succeeds; main prints the success line and returns.
main_writeFile ==
    /\ mpc = "generate" /\ gpc = "idle" /\ Len(results) = 1
    /\ outputFile' = [written |-> TRUE, content |-> results[1]]
    /\ exitCode' = 0
    /\ mpc' = "exited"
    /\ UNCHANGED <<reported, parVars, genVars, lexVars>>

\* os.WriteFile returns an error: log.Fatalf.
main_writeFileFails ==
    /\ mpc = "generate" /\ gpc = "idle" /\ Len(results) = 1
    /\ exitCode' = 1
    /\ mpc' = "exited"
    /\ UNCHANGED <<reported, outputFile, parVars, genVars, lexVars>>

MainNext ==
    \/ main_reportError
    \/ main_exit
    \/ main_generate
    \/ main_writeFile
    \/ main_writeFileFails

(***************************************************************************)
(* lexer, character by character (lexer.go)                                *)
(***************************************************************************)
\* The byte 0: readChar's l.ch at the end of the input.
NUL == "NUL"

Digits == {"0", "1", "2", "3", "4", "5", "6", "7", "8", "9"}

Letters ==
    {"a", "b", "c", "d", "e", "f", "g", "h", "i", "j", "k", "l", "m", "n", "o", "p",
     "q", "r", "s", "t", "u", "v", "w", "x", "y", "z",
     "A", "B", "C", "D", "E", "F", "G", "H", "I", "J", "K", "L", "M", "N", "O", "P",
     "Q", "R", "S", "T", "U", "V", "W", "X", "Y", "Z"}

isLetter(c) == c \in Letters
isDigit(c) == c \in Digits
isTagChar(c) == isLetter(c) \/ isDigit(c) \/ c = "-" \/ c = "_"

\* l.input[from:to]
Slice(l, from, to) == Concat(SubSeq(l.input, from + 1, to))

readChar(l) ==
    LET c == IF l.readPosition >= Len(l.input) THEN NUL
             ELSE l.input[l.readPosition + 1]
    IN  [input |-> l.input,
         ch |-> c,
         position |-> l.readPosition,
         readPosition |-> l.readPosition + 1,
         line |-> IF c = "\n" THEN l.line + 1 ELSE l.line,
         column |-> IF c = "\n" THEN 0 ELSE l.column + 1]

peekChar(l) ==
    IF l.readPosition >= Len(l.input) THEN NUL ELSE l.input[l.readPosition + 1]

New(text) ==
    readChar([input |-> text, ch |-> NUL, position |-> 0, readPosition |-> 0,
              line |-> 1, column |-> 0])

\* for l.ch is one of chars { l.readChar() }
RECURSIVE readWhile(_, _)
readWhile(l, chars) == IF l.ch \in chars THEN readWhile(readChar(l), chars) ELSE l

\* for l.ch is none of chars && l.ch != 0 { l.readChar() }
RECURSIVE readUntil(_, _)
readUntil(l, chars) ==
    IF l.ch \notin chars /\ l.ch # NUL THEN readUntil(readChar(l), chars) ELSE l

skipWhitespace(l) == readWhile(l, {" ", "\t", "\r", "\n"})

isArrayStart(l) ==
    LET next == peekChar(l)
    IN  isDigit(next) \/ next = "$" \/ next = "\"" \/ next = "]" \/ next = " "
        \/ next = "\n" \/ next = "\t"

\* The read functions return the lexer they leave behind and what they read.
readNumber(l) ==
    LET e == readWhile(l, Digits \cup {"."})
    IN  [l |-> e, text |-> Slice(l, l.position, e.position)]

readIdentifier(l) ==
    LET e == readWhile(l, Letters \cup Digits \cup {"_"})
    IN  [l |-> e, text |-> Slice(l, l.position, e.position)]

readTagName(l) ==
    LET e == readWhile(l, Letters \cup Digits \cup {"-", "_"})
    IN  [l |-> e, text |-> Slice(l, l.position, e.position)]

\* Faulty variant: a closing quote is passed even when there is none.
readString_pastEnd(l) ==
    LET b == readChar(l)
        e == readUntil(b, {"\""})
    IN  [l |-> readChar(e), text |-> Slice(l, b.position, e.position)]

readString(l) ==
    LET b == readChar(l)
        e == readUntil(b, {"\""})
    IN  [l |-> IF e.ch = "\"" THEN readChar(e) ELSE e,
         text |-> Slice(l, b.position, e.position)]

RECURSIVE trimTrailingWhitespace(_)
trimTrailingWhitespace(chars) ==
    IF Len(chars) > 0 /\ chars[Len(chars)] \in {" ", "\t", "\n", "\r"}
    THEN trimTrailingWhitespace(SubSeq(chars, 1, Len(chars) - 1))
    ELSE chars

\* The loop of readCodeBlock that looks for the matching brace.
RECURSIVE readBraces(_, _)
readBraces(l, braceCount) ==
    IF braceCount > 0 /\ l.ch # NUL
    THEN IF l.ch = "{" THEN readBraces(readChar(l), braceCount + 1)
         ELSE IF l.ch = "}"
         THEN IF braceCount - 1 = 0 THEN l
              ELSE readBraces(readChar(l), braceCount - 1)
         ELSE readBraces(readChar(l), braceCount)
    ELSE l

readCodeBlock(l) ==
    LET b == readWhile(readChar(l), {" ", "\t", "\n", "\r"})
        e == readBraces(b, 1)
        content == trimTrailingWhitespace(SubSeq(l.input, b.position + 1, e.position))
    IN  [l |-> IF e.ch = "}" THEN readChar(e) ELSE e,
         tok |-> [Type |-> CODEBLOCK, Literal |-> Concat(content),
                  Line |-> l.line, Column |-> l.column]]

readTag(l) ==
    LET n == readTagName(readChar(l))
        e == readUntil(n.l, {"]"})
    IN  [l |-> IF e.ch = "]" THEN readChar(e) ELSE e,
         tok |-> [Type |-> LookUpIdent(n.text), Literal |-> n.text,
                  Line |-> l.line, Column |-> l.column]]

readVariableReference(l) ==
    LET n == readIdentifier(readChar(l))
    IN  [l |-> n.l,
         tok |-> [Type |-> DOLLAR, Literal |-> n.text,
                  Line |-> l.line, Column |-> l.column]]

newToken(tokenType, c, ln, col) ==
    [Type |-> tokenType, Literal |-> c, Line |-> ln, Column |-> col]

NEWLINE == "NEWLINE"

\* Faulty variant: the lexer reads on at the end of the input.
endOfInput_readingOn(l) ==
    [l |-> readChar(l), tok |-> [Type |-> EOF, Literal |-> "",
                                 Line |-> l.line, Column |-> l.column]]

\* case 0 of NextToken: the EOF token; the lexer is left as it is.
endOfInput(l) ==
    [l |-> l, tok |-> [Type |-> EOF, Literal |-> "",
                       Line |-> l.line, Column |-> l.column]]

\* The bounds of the substring l.input[start:end] that the NextToken call
\* made in state l0 takes; start = end where it takes none.
inputSlice(l0) ==
    LET l == skipWhitespace(l0)
        ws == {" ", "\t", "\n", "\r"}
    IN  CASE l.ch = "[" /\ ~isArrayStart(l) ->
               [start |-> readChar(l).position, end |-> readTagName(readChar(l)).l.position]
          [] l.ch = "{" ->
               [start |-> readWhile(readChar(l), ws).position,
                end |-> readBraces(readWhile(readChar(l), ws), 1).position]
          [] l.ch = "$" ->
               [start |-> readChar(l).position,
                end |-> readIdentifier(readChar(l)).l.position]
          [] l.ch = "\"" ->
               [start |-> readChar(l).position,
                end |-> readUntil(readChar(l), {"\""}).position]
          [] isDigit(l.ch) -> [start |-> l.position, end |-> readNumber(l).l.position]
          [] isLetter(l.ch) \/ l.ch = "_" ->
               [start |-> l.position, end |-> readIdentifier(l).l.position]
          [] OTHER -> [start |-> l.position, end |-> l.position]

\* NextToken on the lexer l0: the lexer it leaves behind, the token, and the
\* position where the token's text starts.
LexNextToken(l0) ==
    LET l == skipWhitespace(l0)
        single(type) == [l |-> readChar(l), tok |-> newToken(type, l.ch, l.line, l.column)]
        r == CASE l.ch = "[" -> IF isArrayStart(l) THEN single(LBRACKET) ELSE readTag(l)
               [] l.ch = "]" -> single(RBRACKET)
               [] l.ch = "=" -> single(EQUALS)
               [] l.ch = "," -> single(COMMA)
               [] l.ch = "{" -> readCodeBlock(l)
               [] l.ch = "$" -> readVariableReference(l)
               [] l.ch = "\"" ->
                    LET str == readString(l)
                    IN  [l |-> str.l,
                         tok |-> [Type |-> STRING_TOK, Literal |-> str.text,
                                  Line |-> str.l.line, Column |-> str.l.column]]
               [] l.ch = "\n" -> single(NEWLINE)
               [] l.ch = NUL -> endOfInput(l)
               [] isDigit(l.ch) ->
                    LET num == readNumber(l)
                    IN  [l |-> num.l,
                         tok |-> [Type |-> NUMBER, Literal |-> num.text,
                                  Line |-> l.line, Column |-> l.column]]
               [] isLetter(l.ch) \/ l.ch = "_" ->
                    LET id == readIdentifier(l)
                    IN  [l |-> id.l,
                         tok |-> [Type |-> IDENT, Literal |-> id.text,
                                  Line |-> l.line, Column |-> l.column]]
               [] OTHER -> single(ILLEGAL)
    IN  [l |-> r.l, tok |-> r.tok, from |-> l.position]

\* The number of EOF tokens among the returned ones.
EOFsReturned == Cardinality({i \in DOMAIN returned : returned[i].tok.Type = EOF})

\* One call of l.NextToken() by the lexer's user.
NextToken_call ==
    /\ EOFsReturned < MaxEOF
    /\ LET r == LexNextToken(lexer)
       IN  /\ lexer' = r.l
           /\ returned' = Append(returned,
                                 [tok |-> r.tok, from |-> r.from, to |-> r.l.position,
                                  called |-> lexer.position])
    /\ UNCHANGED <<parVars, mainVars, genVars>>

\* No lexer of this kind is in use.
LexerIdle == lexer = New(<<>>) /\ returned = <<>>

(***************************************************************************)
(* Source texts of the model                                               *)
(***************************************************************************)
SeqsUpTo(S, n) == UNION {[1..k -> S] : k \in 0..n}

\* Every source of at most MaxLen lexemes over each of these alphabets.
Alphabets ==
    { {Tag("mid-page-start"), Tag("mid-page-end"), Tag("p-start"), Tag("p-end"),
       Ident("contains")},
      {Tag("mid-page-start"), Tag("mid-page-end"), Tag("lst-ord"), Tag("lst-unord"),
       Tag("lst-end"), Tag("list-end")},
      {Tag("mid-page-start"), Tag("mid-page-end"), Tag("list-start"), Tag("list-end"),
       Tag("lst-end")},
      {Tag("top-of-page-start"), Tag("top-of-page-end"), Tag("mid-page-start"),
       Tag("mid-page-end"), Tag("bottom-of-page-start"), Tag("bottom-of-page-end")} }

ShortSources == UNION {SeqsUpTo(A, MaxLen) : A \in Alphabets}

\* Whole documents, and each of them with one lexeme left out.
Documents ==
    { <<Tag("mid-page-start"), Tag("p-start"), Ident("contains"), Punct("="), Str("X"),
        Tag("p-end"), Tag("mid-page-end")>>,
      <<Tag("top-of-page-start"), Tag("divide-start"), Ident("padding"), Punct("="),
        Str("large"), Tag("h-start"), Ident("contains"), Punct("="), Var("t"),
        Tag("h-end"), Tag("divide-end"), Tag("top-of-page-end")>>,
      <<Tag("mid-page-start"), Tag("lst-ord"), Ident("items"), Punct("="), Punct("["),
        Num("1"), Punct(","), Num("2"), Punct("]"), Tag("lst-end"),
        Tag("mid-page-end")>>,
      <<Tag("bottom-of-page-start"), Tag("code-start"), Ident("syntax"), Punct("="),
        Code("a<b"), Tag("code-end"), Tag("unknown-tag"), Punct("#"),
        Tag("bottom-of-page-end")>> }

Without(s, i) == SubSeq(s, 1, i - 1) \o SubSeq(s, i + 1, Len(s))

EditedDocuments ==
    Documents \cup UNION {{Without(d, i) : i \in 1..Len(d)} : d \in Documents}

\* A list whose items array is followed by at most MaxArray lexemes.
ArrayLexemes ==
    {Str("a"), Num("1"), Var("v"), Punct(","), Punct("["), Punct("]"), Code("c"),
     Tag("p-start"), Tag("lst-end"), Ident("x")}

ArraySources ==
    {<<Tag("mid-page-start"), Tag("lst-ord"), Ident("items"), Punct("="), Punct("[")>>
        \o rest : rest \in SeqsUpTo(ArrayLexemes, MaxArray)}

Sources == ShortSources \cup EditedDocuments \cup ArraySources

(***************************************************************************)
(* The compiler run: lexer.New, parser.New, then main from ParseDocument   *)
(***************************************************************************)
GeneratorIdle ==
    /\ queue = <<>>
    /\ labels = NoLabels
    /\ indent = 0
    /\ out = <<>>
    /\ gstack = <<>>
    /\ gpc = "idle"
    /\ results = <<>>

Init ==
    /\ source \in Sources
    /\ curToken = NewParser.cur
    /\ peekToken = NewParser.peek
    /\ lexPos = NewParser.pos
    /\ errors = NewParser.errors
    /\ pstack = <<>>
    /\ doc = [Sections |-> <<>>]
    /\ ppc = "parsing"
    /\ tagLog = <<>>
    /\ mpc = "parse"
    /\ reported = <<>>
    /\ exitCode = -1
    /\ outputFile = NoFile
    /\ GeneratorIdle
    /\ LexerIdle

Next == ParserNext \/ MainNext \/ GeneratorNext

Spec == Init /\ [][Next]_vars

(***************************************************************************)
(* Documents handed to the generator directly                              *)
(***************************************************************************)
\* The map with the given <<name, value>> entries, nil values left out.
Props(entries) ==
    LET kept == {e \in entries : e[2] # NilValue}
    IN  [n \in {e[1] : e \in kept} |-> (CHOOSE e \in kept : e[1] = n)[2]]

Elem(tag, entries, children) == Element(tag, Props(entries), children, 1)

OneSection(children) == [Sections |-> <<PageSection("mid", children)>>]

\* Two elements with labels, contents and colours that may refer to each
\* other, as siblings and as parent and child.
LabelChoices == {NilValue, StringValue("a"), StringValue("b")}
ContainsChoices ==
    {NilValue, StringValue("X"), StringValue("Y"), VariableRef("a"), VariableRef("b")}
ColorChoices == {NilValue, VariableRef("a"), VariableRef("b")}

LabelledProps ==
    {{<<"label", l>>, <<"contains", c>>, <<"color", k>>} :
        l \in LabelChoices, c \in ContainsChoices, k \in ColorChoices}

LabelDocs ==
    {OneSection(<<Elem("p", e1, <<>>), Elem("p", e2, <<>>)>>) :
        e1 \in LabelledProps, e2 \in LabelledProps}
    \cup {OneSection(<<Elem("divide", e1, <<Elem("p", e2, <<>>)>>)>>) :
            e1 \in LabelledProps, e2 \in LabelledProps}

\* One paragraph with one style property.
StyleValues ==
    {"tiny", "small", "normal", "medium", "large", "huge", "giant", "none", "thin",
     "thick", "full", "circle", "12px", "1px dashed red", "linear-gradient(red, blue)",
     "url(img.png)", "#f5f5f5", "true"}

StyleDocs ==
    {OneSection(<<Elem("p", {<<"contains", StringValue("X")>>, <<n, StringValue(v)>>},
                       <<>>)>>) :
        n \in StyleProps, v \in StyleValues}

\* One paragraph or heading with a format_with array, with or without a colour.
FormatNames == {"bold", "italic", "underline", "strike", "code", "mark", "blink"}

FormatArrays ==
    {ArrayValue([i \in DOMAIN fs |-> StringValue(fs[i])]) :
        fs \in SeqsUpTo(FormatNames, MaxFormats)}

FormatDocs ==
    {OneSection(<<Elem(t, {<<"contains", StringValue("C")>>, <<"format_with", f>>,
                           <<"color", c>>}, <<>>)>>) :
        t \in {"p", "h"}, f \in FormatArrays, c \in {NilValue, StringValue("#666")}}

\* Documents with the other element kinds.
OtherDocs ==
    { [Sections |-> <<>>],
      [Sections |->
         <<PageSection("top",
             <<Elem("h", {<<"contains", StringValue("Title")>>, <<"level", NumberValue("2")>>,
                          <<"size", StringValue("32px")>>, <<"color", StringValue("navy")>>},
                    <<>>),
               Elem("link", {<<"contains", StringValue("Home")>>,
                             <<"href", StringValue("/")>>, <<"label", StringValue("home")>>},
                    <<>>),
               Elem("img", {<<"src", StringValue("logo.png")>>}, <<>>)>>),
           PageSection("mid",
             <<Elem("lst-ord", {<<"items", ArrayValue(<<NumberValue("1"), NumberValue("2"),
                                                       VariableRef("home")>>)>>},
                    <<Elem("item", {<<"contains", StringValue("three")>>}, <<>>)>>),
               Elem("list", {<<"type", StringValue("ordered")>>}, <<>>),
               Elem("table", {},
                    <<Elem("row", {},
                           <<Elem("cell", {<<"contains", StringValue("c1")>>}, <<>>)>>)>>),
               Elem("top-of-page", {}, <<Elem("p", {}, <<>>)>>)>>),
           PageSection("bottom",
             <<Elem("form", {<<"action", StringValue("/send")>>},
                    <<Elem("input", {<<"name", StringValue("q")>>}, <<>>),
                      Elem("btn", {<<"contains", StringValue("Go")>>}, <<>>)>>),
               Elem("bold", {<<"contains", StringValue("b")>>}, <<>>),
               Elem("italic", {<<"contains", StringValue("i")>>}, <<>>),
               Elem("code", {<<"syntax", CodeBlockValue("s=\"<&>\"")>>,
                             <<"file_type", StringValue("go")>>,
                             <<"linked_file", StringValue("main.go")>>}, <<>>)>>)>>] }

\* One list of any of the three kinds with an items array, with or without
\* an item element as its child.
ItemValues == {NumberValue("1"), NumberValue("2"), StringValue("x"), VariableRef("t")}

ListDocs ==
    {OneSection(<<Elem(t, {<<"items", ArrayValue(vs)>>}, cs)>>) :
        t \in {"lst-ord", "lst-unord", "list"},
        vs \in SeqsUpTo(ItemValues, MaxItems),
        cs \in {<<>>, <<Elem("item", {<<"label", StringValue("t")>>,
                                       <<"contains", StringValue("T")>>}, <<>>)>>}}

\* Two paragraphs, the first with a label that is not a string.
OddLabelDocs ==
    {OneSection(<<Elem("p", {<<"label", l1>>, <<"contains", StringValue("X")>>}, <<>>),
                  Elem("p", {<<"label", l2>>, <<"contains", StringValue("Y")>>,
                             <<"color", k>>}, <<>>)>>) :
        l1 \in {NumberValue("7"), VariableRef("a"), ArrayValue(<<StringValue("a")>>)},
        l2 \in {NilValue, StringValue("a"), StringValue("7")},
        k \in {VariableRef("7"), VariableRef("a")}}

\* One paragraph with both names of the text colour and of the background.
ColourDocs ==
    {OneSection(<<Elem("p", {<<"contains", StringValue("X")>>, <<"text_color", tc>>,
                             <<"color", c>>, <<"bg_color", bc>>, <<"background", bg>>},
                       <<>>)>>) :
        tc \in {NilValue, StringValue(""), StringValue("red")},
        c \in {NilValue, StringValue(""), StringValue("blue")},
        bc \in {NilValue, StringValue(""), StringValue("#eee")},
        bg \in {NilValue, StringValue("#fff"), StringValue("url(img.png)")}}

\* One element of each kind with one element nested in it.
ParentKinds ==
    {"divide", "p", "h", "link", "list", "item", "table", "row", "cell", "form", "btn",
     "bold", "italic"}

NestedDocs ==
    {OneSection(<<Elem(t, {<<"contains", StringValue("P")>>},
                       <<Elem(c, {<<"contains", StringValue("C")>>}, <<>>)>>)>>) :
        t \in ParentKinds, c \in {"p", "bold"}}

\* One heading with or without a level, a size and a colour.
LevelChoices ==
    {NilValue, NumberValue("1"), NumberValue("2"), NumberValue("6"), NumberValue("7"),
     NumberValue("0"), StringValue("big"), StringValue("")}

HeadingDocs ==
    {OneSection(<<Elem("h", {<<"contains", StringValue("T")>>, <<"level", l>>,
                             <<"size", z>>, <<"color", c>>}, <<>>)>>) :
        l \in LevelChoices, z \in {NilValue, StringValue("32px")},
        c \in {NilValue, StringValue("navy")}}

GenDocs ==
    LabelDocs \cup OddLabelDocs \cup ColourDocs \cup NestedDocs \cup HeadingDocs
    \cup StyleDocs \cup FormatDocs \cup ListDocs \cup OtherDocs

(***************************************************************************)
(* One Generator, Generate called twice on the same document               *)
(***************************************************************************)
InitGen ==
    /\ doc \in GenDocs
    /\ queue = <<doc, doc>>
    /\ labels = NoLabels
    /\ indent = 0
    /\ out = <<>>
    /\ gstack = <<>>
    /\ gpc = "idle"
    /\ results = <<>>
    /\ source = <<>>
    /\ curToken = NewParser.cur
    /\ peekToken = NewParser.peek
    /\ lexPos = NewParser.pos
    /\ errors = <<>>
    /\ pstack = <<>>
    /\ ppc = "done"
    /\ tagLog = <<>>
    /\ mpc = "generator"
    /\ reported = <<>>
    /\ exitCode = -1
    /\ outputFile = NoFile
    /\ LexerIdle

SpecGen == InitGen /\ [][GeneratorNext]_vars

\* One Generator used for three documents in turn: a document, a different
\* one, and the first again.
ReuseDocs ==
    {OneSection(<<Elem("p", e, <<>>)>>) : e \in LabelledProps}
    \cup {OneSection(<<Elem("divide", {<<"label", l>>},
                           <<Elem("p", {<<"contains", c>>}, <<>>)>>)>>) :
            l \in LabelChoices, c \in ContainsChoices}

InitReuse ==
    /\ doc \in ReuseDocs
    /\ \E other \in ReuseDocs \ {doc} : queue = <<doc, other, doc>>
    /\ labels = NoLabels
    /\ indent = 0
    /\ out = <<>>
    /\ gstack = <<>>
    /\ gpc = "idle"
    /\ results = <<>>
    /\ source = <<>>
    /\ curToken = NewParser.cur
    /\ peekToken = NewParser.peek
    /\ lexPos = NewParser.pos
    /\ errors = <<>>
    /\ pstack = <<>>
    /\ ppc = "done"
    /\ tagLog = <<>>
    /\ mpc = "generator"
    /\ reported = <<>>
    /\ exitCode = -1
    /\ outputFile = NoFile
    /\ LexerIdle

SpecReuse == InitReuse /\ [][GeneratorNext]_vars

(***************************************************************************)
(* One Lexer, NextToken called until it has returned EOF                   *)
(***************************************************************************)
\* Every input of at most MaxChars characters over each of these alphabets.
LexAlphabets ==
    { {"[", "]", " ", "\t", "\r", "\n", "1", "p"},
      {"[", "]", "$", "\"", "-", "=", ",", "a"},
      {"{", "}", " ", "\n", "\r", "a", NUL},
      {"a", "1", ".", "_", "#", NUL, "\"", "$"} }

ShortInputs == UNION {SeqsUpTo(A, MaxChars) : A \in LexAlphabets}

\* Whole texts.
LexTexts ==
    {
      <<"[", "p", "-", "s", "t", "a", "r", "t", "]", " ", "a", "=", "\"", "x",
        "\"", " ", "[", "p", "-", "e", "n", "d", "]">>,
      <<"[", "l", "s", "t", "-", "o", "r", "d", "]", " ", "i", "t", "e", "m", "s",
        " ", "=", " ", "[", "1", ",", "2", ",", "3", "]", " ", "[", "l", "s", "t",
        "-", "e", "n", "d", "]">>,
      <<"c", " ", "=", " ", "{", " ", "f", " ", "{", "x", "}", " ", "\n", " ", "}",
        "\n", "$", "v", " ", "1", ".", "5", " ", "#">> }

LexInputs == ShortInputs \cup LexTexts

InitLex ==
    /\ \E text \in LexInputs : lexer = New(text)
    /\ returned = <<>>
    /\ source = <<>>
    /\ curToken = NewParser.cur
    /\ peekToken = NewParser.peek
    /\ lexPos = NewParser.pos
    /\ errors = <<>>
    /\ pstack = <<>>
    /\ doc = [Sections |-> <<>>]
    /\ ppc = "done"
    /\ tagLog = <<>>
    /\ mpc = "lexer"
    /\ reported = <<>>
    /\ exitCode = -1
    /\ outputFile = NoFile
    /\ GeneratorIdle

SpecLex == InitLex /\ [][NextToken_call]_vars


(***************************************************************************)
(* Lexing and parsing to their end                                         *)
(***************************************************************************)
\* A compiler run, or a lexer called on its own.
InitRun == Init \/ InitLex

NextRun == Next \/ (mpc = "lexer" /\ NextToken_call)

SpecRun == InitRun /\ [][NextRun]_vars

(***************************************************************************)
(* Properties of the compiler run (main.go)                                *)
(***************************************************************************)
\* The lines main prints for a list of parse errors.
ReportLines(errs) == [i \in DOMAIN errs |-> "  - " \o errs[i] \o "\n"]

\* C1: when parsing ends with a non-empty error list, main prints every
\* error in order, ends with exit code 1, never starts the generator and
\* never writes the output file; the output file is written only when the
\* error list is empty.
C1_ErrorsStopTheRun ==
    /\ outputFile.written => errors = <<>>
    /\ (ppc = "done" /\ errors # <<>>) =>
          /\ ~outputFile.written
          /\ queue = <<>> /\ results = <<>> /\ gpc = "idle"
          /\ mpc \in {"check", "exited"}
          /\ Len(reported) <= Len(errors)
          /\ reported = SubSeq(ReportLines(errors), 1, Len(reported))
          /\ mpc = "exited" => (exitCode = 1 /\ reported = ReportLines(errors))

\* A run that ended after reporting two parse errors.
C1_Witness ==
    /\ mpc = "exited" /\ exitCode = 1
    /\ Len(errors) = 2 /\ Len(reported) = 2
    /\ ~outputFile.written

(***************************************************************************)
(* Properties of the generator (generator.go)                              *)
(***************************************************************************)
\* C2: Generate returns for every label registry and every property value,
\* a variable reference to any registered label included: no call of
\* Generate ends in the runtime's fatal stack overflow.
C2_GenerateAlwaysReturns == gpc # "fatal"


(***************************************************************************)
(* Properties of the parser (parser.go)                                    *)
(***************************************************************************)
\* The tag names of the language, each opening name with its closing name.
TagPairs ==
    {<<"top-of-page-start", "top-of-page-end">>, <<"mid-page-start", "mid-page-end">>,
     <<"bottom-of-page-start", "bottom-of-page-end">>,
     <<"divide-start", "divide-end">>, <<"p-start", "p-end">>, <<"h-start", "h-end">>,
     <<"link-start", "link-end">>, <<"img-start", "img-end">>,
     <<"list-start", "list-end">>, <<"lst-ord", "lst-end">>, <<"lst-unord", "lst-end">>,
     <<"item-start", "item-end">>, <<"table-start", "table-end">>,
     <<"row-start", "row-end">>, <<"cell-start", "cell-end">>,
     <<"form-start", "form-end">>, <<"input-start", "input-end">>,
     <<"btn-start", "btn-end">>, <<"bold-start", "bold-end">>,
     <<"italic-start", "italic-end">>, <<"code-start", "code-end">>}

OpenNames == {pr[1] : pr \in TagPairs}
CloseNames == {pr[2] : pr \in TagPairs}
SectionOpenNames == {"top-of-page-start", "mid-page-start", "bottom-of-page-start"}

\* A reading of the source text that knows nothing of the parser: sections
\* at top level, elements inside them, properties of the form name = value
\* inside elements, every opening tag closed by its own closing tag in
\* nesting order.  pairs collects who opened, where, and where it was closed.
ScanStart == [ok |-> TRUE, mode |-> "content", stack |-> <<>>, pairs |-> {}]

ScanStep(st, lx, i) ==
    LET depth == Len(st.stack)
        bad == [st EXCEPT !.ok = FALSE]
    IN  CASE ~st.ok -> st
          [] st.mode = "name" ->
               IF lx = Punct("=") THEN [st EXCEPT !.mode = "value"] ELSE bad
          [] st.mode = "value" ->
               IF lx.lex \in {"string", "number", "dollar", "codeblock"}
               THEN [st EXCEPT !.mode = "content"]
               ELSE IF lx = Punct("[") THEN [st EXCEPT !.mode = "array"] ELSE bad
          [] st.mode = "array" ->
               IF lx.lex \in {"string", "number", "dollar"} \/ lx = Punct(",") THEN st
               ELSE IF lx = Punct("]") THEN [st EXCEPT !.mode = "content"] ELSE bad
          [] OTHER ->
               IF lx.lex = "tag" /\ lx.text \in OpenNames
               THEN IF depth = 0 /\ lx.text \notin SectionOpenNames THEN bad
                    ELSE [st EXCEPT !.stack = Append(@, [name |-> lx.text, at |-> i,
                             as |-> IF depth = 0 THEN "parsePageSection"
                                    ELSE "parseElement"])]
               ELSE IF lx.lex = "tag" /\ lx.text \in CloseNames
               THEN IF depth > 0 /\ <<st.stack[depth].name, lx.text>> \in TagPairs
                    THEN [st EXCEPT !.stack = SubSeq(@, 1, depth - 1),
                                    !.pairs = @ \cup {<<st.stack[depth].as,
                                                        st.stack[depth].at, i>>}]
                    ELSE bad
               ELSE IF lx.lex = "ident" /\ depth >= 2
               THEN [st EXCEPT !.mode = "name"]
               ELSE bad

RECURSIVE ScanFrom(_, _, _)
ScanFrom(src, i, st) ==
    IF i > Len(src) THEN st ELSE ScanFrom(src, i + 1, ScanStep(st, src[i], i))

Scan(src) == ScanFrom(src, 1, ScanStart)

WellNested(src) ==
    LET st == Scan(src) IN st.ok /\ st.mode = "content" /\ st.stack = <<>>

\* The messages recorded for an opened tag that found no closing tag.
ClosingTagErrors ==
    {"expected closing tag for section " \o k : k \in {"top", "mid", "bottom"}}
    \cup {"expected closing tag for element " \o GetTagName(t) \o " at line 1" :
            t \in OpeningTags}

Unclosed == {i \in DOMAIN tagLog : ~tagLog[i].closed}
ClosingErrors == {i \in DOMAIN errors : errors[i] \in ClosingTagErrors}

\* C3 as stated: after ParseDocument the error list is empty exactly when
\* every opened tag was terminated by its matching closing tag.
C3_ErrorsEmptyIffAllClosed ==
    ppc = "done" => (errors = <<>> <=> Unclosed = {})

\* C3, amended: after ParseDocument the error list holds exactly one
\* "expected closing tag" error for each section or element the parser
\* opened and did not see terminated by its matching closing tag, so an
\* empty error list implies that all of them were closed; and in a
\* well-nested document there is no error and every closing tag is consumed
\* exactly once, by the section or element it closes.
C3_ClosingErrorPerUnclosedTag ==
    ppc = "done" =>
        /\ Cardinality(ClosingErrors) = Cardinality(Unclosed)
        /\ errors = <<>> => Unclosed = {}
        /\ WellNested(source) =>
              /\ errors = <<>>
              /\ {<<tagLog[i].fn, tagLog[i].openCol, tagLog[i].closeCol>> :
                     i \in DOMAIN tagLog} = Scan(source).pairs
              /\ Len(tagLog) = Cardinality(Scan(source).pairs)
              /\ \A i, j \in DOMAIN tagLog :
                     tagLog[i].closeCol = tagLog[j].closeCol => i = j

\* A well-nested document with a section, an element in it and a property,
\* parsed to the end.
C3_Witness ==
    /\ ppc = "done" /\ WellNested(source)
    /\ Len(tagLog) = 2 /\ Unclosed = {}
    /\ \E i \in DOMAIN source : source[i].lex = "ident"

ListOpeners == {"LIST_ORD_START", "LIST_UNORD_START"}

\* C4: an element opened by [lst-ord] or by [lst-unord] is closed by the one
\* token [lst-end] lexes to, with no error for it, and an element or section
\* of any other kind is closed only by the token GetMatchingClose gives for
\* its opening tag: [lst-end] does not close [list-start], and [list-end]
\* does not close [lst-ord] or [lst-unord].
C4_ListsShareOneClosingTag ==
    \A i \in DOMAIN tagLog :
        LET e == tagLog[i]
            next == IF e.openCol < Len(source) THEN source[e.openCol + 1] ELSE Punct("#")
        IN  /\ e.closed =>
                 e.by = IF e.open \in ListOpeners THEN LookUpIdent("lst-end")
                        ELSE GetMatchingClose(e.open)
            /\ (e.open \in ListOpeners /\ next = Tag("lst-end")) =>
                 (e.closed /\ e.closeCol = e.openCol + 1)
            /\ (e.open = "LIST_START" /\ next = Tag("lst-end")) =>
                 ~(e.closed /\ e.closeCol = e.openCol + 1)
            /\ (e.open \in ListOpeners /\ next = Tag("list-end")) =>
                 ~(e.closed /\ e.closeCol = e.openCol + 1)
            /\ (ppc = "done" /\ e.open \in ListOpeners /\ e.closed) =>
                 ("expected closing tag for element " \o GetTagName(e.open)
                     \o " at line 1") \notin {errors[k] : k \in DOMAIN errors}
                 \/ \E j \in DOMAIN tagLog : tagLog[j].open = e.open /\ ~tagLog[j].closed

\* An unordered list closed by [lst-end].
C4_Witness ==
    \E i \in DOMAIN tagLog :
        /\ tagLog[i].open = "LIST_UNORD_START" /\ tagLog[i].closed
        /\ tagLog[i].by = "LIST_ORD_END"
        /\ ppc = "done" /\ errors = <<>>


(***************************************************************************)
(* Properties of variable resolution (generator.go)                        *)
(***************************************************************************)
\* The elements of a document in document order, parents before children.
RECURSIVE PreOrder(_)
PreOrder(children) ==
    IF children = <<>> THEN <<>>
    ELSE <<Head(children)>> \o PreOrder(Head(children).Children)
         \o PreOrder(Tail(children))

RECURSIVE SectionElements(_)
SectionElements(sections) ==
    IF sections = <<>> THEN <<>>
    ELSE PreOrder(Head(sections).Children) \o SectionElements(Tail(sections))

DocElements == SectionElements(doc.Sections)

\* The positions of the elements that declare label name as a string.
Declaring(name) ==
    {j \in DOMAIN DocElements :
        /\ "label" \in DOMAIN DocElements[j].Properties
        /\ DocElements[j].Properties["label"] = StringValue(name)}

\* The positions and property names holding a reference $name.
References ==
    {rp \in (DOMAIN DocElements) \X {"contains", "color"} :
        /\ rp[2] \in DOMAIN DocElements[rp[1]].Properties
        /\ DocElements[rp[1]].Properties[rp[2]].kind = "VariableRef"}

Resolved(rp) == resolveValue(DocElements[rp[1]].Properties[rp[2]], labels, 0)
Referred(rp) == DocElements[rp[1]].Properties[rp[2]].Name
Last(S) == CHOOSE j \in S : \A k \in S : k <= j

\* C5 as stated: for every element E with a label, a reference $label in a
\* property of any other element resolves to E's own contains, and a
\* reference to an undeclared label resolves to the literal text.
C5_ReferenceResolvesToEveryDeclarer ==
    gpc = "render" =>
        \A rp \in References :
            IF Declaring(Referred(rp)) = {}
            THEN Resolved(rp) = "$" \o Referred(rp)
            ELSE \A j \in Declaring(Referred(rp)) \ {rp[1]} :
                    Resolved(rp) = getStringProp(DocElements[j], "contains", labels, 0)

\* C5, amended: while a Generator renders the one document its registry was
\* collected from, a reference $label in a property of another element
\* resolves as the contains property of the last element in document order
\* that declares that label as a string resolves (to its text, or with the
\* same failure to return), and a reference to a label no element declares
\* resolves to the literal text $label.
C5_ReferenceResolvesToLastDeclarer ==
    gpc = "render" =>
        \A rp \in References :
            IF Declaring(Referred(rp)) = {}
            THEN Resolved(rp) = "$" \o Referred(rp)
            ELSE rp[1] # Last(Declaring(Referred(rp))) =>
                    Resolved(rp) = getStringProp(DocElements[Last(Declaring(Referred(rp)))],
                                                 "contains", labels, 0)

\* Two elements declare label a with different contents, and the colour of
\* the first refers to it: the reference has the content of the second.
C5_Witness ==
    /\ gpc = "render"
    /\ Declaring("a") = {1, 2}
    /\ \A j \in {1, 2} : "contains" \in DOMAIN DocElements[j].Properties
    /\ DocElements[1].Properties["contains"] = StringValue("X")
    /\ DocElements[2].Properties["contains"] = StringValue("Y")
    /\ <<1, "color">> \in References /\ Referred(<<1, "color">>) = "a"
    /\ Resolved(<<1, "color">>) = "Y"
    /\ out # Prologue


(***************************************************************************)
(* Properties of the generated HTML (generator.go)                         *)
(***************************************************************************)
\* C6: two calls of Generate with the same document on the same Generator
\* return the same text, byte for byte.
C6_GenerateTwiceSameOutput ==
    (Len(results) = 2 /\ queue = <<>>) => results[1] = results[2]

\* Both calls have returned for a document with labels, styles and nesting.
C6_Witness ==
    /\ Len(results) = 2 /\ results[1] = results[2]
    /\ DOMAIN labels # {}
    /\ Len(doc.Sections) = 3
    /\ Len(results[2]) > Len(Prologue) + Len(Epilogue) + 6

\* The only child of the only section of the document, when it has that form.
OnlyChild == doc.Sections[1].Children[1]
HasOnlyChild == Len(doc.Sections) = 1 /\ Len(doc.Sections[1].Children) = 1

\* The line Generate writes for the only child: it follows the prologue and
\* the line that opens the section.
ChildLine == results[1][Len(Prologue) + 2]

\* The friendly names of the documentation, per property, and the CSS
\* property each one sets.
FriendlyTable ==
    [text_size |-> [tiny |-> "10px", small |-> "12px", normal |-> "16px",
                    medium |-> "20px", large |-> "24px", huge |-> "32px",
                    giant |-> "48px"],
     padding |-> [none |-> "0", tiny |-> "4px", small |-> "8px", medium |-> "16px",
                  large |-> "24px", huge |-> "32px"],
     margin |-> [none |-> "0", tiny |-> "4px", small |-> "8px", medium |-> "16px",
                 large |-> "24px", huge |-> "32px"],
     border |-> [none |-> "none", thin |-> "1px solid #ccc",
                 medium |-> "2px solid #999", thick |-> "3px solid #333"],
     rounded |-> [none |-> "0", small |-> "4px", medium |-> "8px", large |-> "16px",
                  full |-> "9999px", circle |-> "50%"],
     shadow |-> [none |-> "none",
                 small |-> "0 1px 3px rgba(0,0,0,0.12), 0 1px 2px rgba(0,0,0,0.24)",
                 medium |-> "0 3px 6px rgba(0,0,0,0.15), 0 2px 4px rgba(0,0,0,0.12)",
                 large |-> "0 10px 20px rgba(0,0,0,0.15), 0 3px 6px rgba(0,0,0,0.10)",
                 huge |-> "0 15px 25px rgba(0,0,0,0.15), 0 5px 10px rgba(0,0,0,0.05)"]]

CssName ==
    [text_size |-> "font-size", padding |-> "padding", margin |-> "margin",
     border |-> "border", rounded |-> "border-radius", shadow |-> "box-shadow"]

FriendlyCss(prop, v) ==
    IF v \in DOMAIN FriendlyTable[prop] THEN FriendlyTable[prop][v] ELSE v

\* The property, other than contains, of a paragraph with two properties.
StyleOf(elem) == CHOOSE n \in DOMAIN elem.Properties : n # "contains"

IsFriendlyParagraph ==
    /\ HasOnlyChild /\ OnlyChild.TagType = "p"
    /\ Cardinality(DOMAIN OnlyChild.Properties) = 2
    /\ "contains" \in DOMAIN OnlyChild.Properties
    /\ StyleOf(OnlyChild) \in DOMAIN FriendlyTable
    /\ OnlyChild.Properties[StyleOf(OnlyChild)].kind = "StringValue"

FormatTag ==
    [bold |-> "strong", italic |-> "em", underline |-> "u", strike |-> "s",
     code |-> "code", mark |-> "mark"]

\* content wrapped by the format names fs, the last name outermost.
RECURSIVE Wrapped(_, _)
Wrapped(fs, content) ==
    IF fs = <<>> THEN content
    ELSE LET f == fs[Len(fs)]
             inner == Wrapped(SubSeq(fs, 1, Len(fs) - 1), content)
         IN  IF f \in DOMAIN FormatTag
             THEN "<" \o FormatTag[f] \o ">" \o inner \o "</" \o FormatTag[f] \o ">"
             ELSE inner

\* A paragraph or heading with a text, an array of format names and at most
\* a colour.
IsFormatted ==
    /\ HasOnlyChild /\ OnlyChild.TagType \in {"p", "h"}
    /\ {"contains", "format_with"} \subseteq DOMAIN OnlyChild.Properties
    /\ DOMAIN OnlyChild.Properties \subseteq {"contains", "format_with", "color"}
    /\ OnlyChild.Properties["contains"].kind = "StringValue"
    /\ OnlyChild.Properties["format_with"].kind = "ArrayValue"
    /\ \A i \in DOMAIN OnlyChild.Properties["format_with"].Values :
           OnlyChild.Properties["format_with"].Values[i].kind = "StringValue"
    /\ "color" \in DOMAIN OnlyChild.Properties =>
           OnlyChild.Properties["color"].kind = "StringValue"

FormatsOf(elem) ==
    [i \in DOMAIN elem.Properties["format_with"].Values |->
        elem.Properties["format_with"].Values[i].Value]

ColourAttr(elem) ==
    IF "color" \in DOMAIN elem.Properties
    THEN " style=\"color: " \o elem.Properties["color"].Value \o ";\""
    ELSE ""

HtmlName(elem) == IF elem.TagType = "h" THEN "h1" ELSE elem.TagType

IsQuickExampleParagraph ==
    /\ IsFormatted /\ OnlyChild.TagType = "p"
    /\ FormatsOf(OnlyChild) = <<"bold", "italic">>
    /\ "color" \in DOMAIN OnlyChild.Properties
    /\ OnlyChild.Properties["color"] = StringValue("#666")

\* C9: a paragraph with contains = C, format_with = ["bold", "italic"] and
\* color = "#666" compiles to <p style="color: #666;"><strong><em>C</em></strong></p>:
\* the first format name of the array becomes the outermost tag.
C9_QuickExampleParagraph ==
    (Len(results) >= 1 /\ IsQuickExampleParagraph) =>
        ChildLine = "    <p style=\"color: #666;\"><strong><em>"
                    \o OnlyChild.Properties["contains"].Value
                    \o "</em></strong></p>\n"

\* The lines that open a section.
SectionClass == [top |-> "top-of-page", mid |-> "mid-page", bottom |-> "bottom-of-page"]
SectionKind ==
    [TOP_OF_PAGE_START |-> "top", MID_PAGE_START |-> "mid", BOTTOM_OF_PAGE_START |-> "bottom"]
SectionDiv(kind) == "  <div class=\"" \o SectionClass[kind] \o "\">\n"
IsSectionDiv(line) == line \in {SectionDiv(k) : k \in DOMAIN SectionClass}
IsSectionOpening(entry) == entry.fn = "parsePageSection"

\* The page-section opening tags met at top level, in source order.
SectionsOpened ==
    LET opened == SelectSeq(tagLog, IsSectionOpening)
    IN  [i \in DOMAIN opened |-> SectionKind[opened[i].open]]

\* C10: the generated text is the fixed prologue, then a body with exactly
\* one section div per page-section opening tag met at top level, in source
\* order and with the class of its kind, then the closing </body></html>.
C10_OneDivPerSection ==
    Len(results) = 1 =>
        LET html == results[1]
            n == Len(html)
            inside == SubSeq(html, Len(Prologue) + 1, n - 2)
        IN  /\ n >= Len(Prologue) + 2
            /\ SubSeq(html, 1, Len(Prologue)) = Prologue
            /\ html[Len(Prologue)] = "<body>\n"
            /\ SubSeq(html, n - 1, n) = <<"</body>\n", "</html>\n">>
            /\ SelectSeq(inside, IsSectionDiv)
                 = [i \in DOMAIN SectionsOpened |-> SectionDiv(SectionsOpened[i])]

\* A source with a bottom section before a mid section, compiled.
C10_Witness ==
    /\ Len(results) = 1
    /\ SectionsOpened = <<"bottom", "mid">>
    /\ outputFile.written
    /\ SelectSeq(outputFile.content, IsSectionDiv) = <<SectionDiv("bottom"), SectionDiv("mid")>>


(***************************************************************************)
(* Properties of unclosed sections (parser.go)                             *)
(***************************************************************************)
ElementEntries == {i \in DOMAIN tagLog : tagLog[i].fn = "parseElement"}

\* Where the text of an opened tag ends: at its closing tag, or at the end
\* of the input when it has none.
EndOf(entry) == IF entry.closed THEN entry.closeCol ELSE Len(source) + 1

\* The elements opened directly inside section sec, not inside another
\* element, as positions of the history.
DirectChildren(sec) ==
    {i \in ElementEntries :
        /\ sec.openCol < tagLog[i].openCol /\ tagLog[i].openCol < EndOf(sec)
        /\ \A j \in ElementEntries :
              (sec.openCol < tagLog[j].openCol /\ tagLog[j].openCol < tagLog[i].openCol)
                 => EndOf(tagLog[j]) < tagLog[i].openCol}

\* The tag names of those elements in source order.
ChildNames(sec) ==
    LET C == DirectChildren(sec)
        nth(k) == CHOOSE i \in C :
                     Cardinality({j \in C : tagLog[j].openCol < tagLog[i].openCol}) = k - 1
    IN  [k \in 1..Cardinality(C) |-> GetTagName(tagLog[nth(k)].open)]

ErrorSet == {errors[k] : k \in DOMAIN errors}

\* C11: a page section whose closing tag does not come before the end of
\* the input leaves an error that names its kind, parsing still returns, and
\* the document holds that section with every child parsed before the end of
\* the input.
C11_UnclosedSectionKept ==
    ppc = "done" =>
        LET secs == SelectSeq(tagLog, IsSectionOpening)
        IN  /\ Len(doc.Sections) = Len(secs)
            /\ \A k \in DOMAIN secs :
                  /\ doc.Sections[k].Type = SectionKind[secs[k].open]
                  /\ ~secs[k].closed =>
                        ("expected closing tag for section " \o SectionKind[secs[k].open])
                            \in ErrorSet
                  /\ [c \in DOMAIN doc.Sections[k].Children |->
                         doc.Sections[k].Children[c].TagType] = ChildNames(secs[k])

\* A bottom section with a paragraph in it and no closing tag, parsed to the
\* end.
C11_Witness ==
    /\ ppc = "done" /\ mpc = "check"
    /\ Len(tagLog) >= 2
    /\ tagLog[Len(tagLog)].fn = "parsePageSection"
    /\ tagLog[Len(tagLog)].open = "BOTTOM_OF_PAGE_START"
    /\ ~tagLog[Len(tagLog)].closed
    /\ "expected closing tag for section bottom" \in ErrorSet
    /\ Len(doc.Sections) = 1 /\ Len(doc.Sections[1].Children) >= 1


(***************************************************************************)
(* Properties of lists (generator.go)                                      *)
(***************************************************************************)
\* A list whose only property is an items array.
IsItemsList ==
    /\ HasOnlyChild
    /\ OnlyChild.TagType \in {"lst-ord", "lst-unord", "list"}
    /\ DOMAIN OnlyChild.Properties = {"items"}
    /\ OnlyChild.Properties["items"].kind = "ArrayValue"

ItemsOf == OnlyChild.Properties["items"].Values

\* The display text of an array value.
ItemText(v) ==
    IF v.kind = "VariableRef"
    THEN IF Declaring(v.Name) = {} THEN "$" \o v.Name
         ELSE DocElements[Last(Declaring(v.Name))].Properties["contains"].Value
    ELSE v.Value

\* The lines of the first result between the line that opens the list and
\* the line that closes it.
ListBody ==
    SubSeq(results[1], Len(Prologue) + 3, Len(results[1]) - Len(Epilogue) - 2)

\* C12: a list with an items array of n values renders exactly n <li>
\* entries for them, one per value in array order with the value's resolved
\* text, all before the output of the list's child elements; [lst-ord] gives
\* an <ol>.
C12_OneEntryPerItem ==
    (Len(results) >= 1 /\ IsItemsList) =>
        /\ Len(ListBody) = Len(ItemsOf) + Len(OnlyChild.Children)
        /\ SubSeq(ListBody, 1, Len(ItemsOf))
             = [i \in DOMAIN ItemsOf |-> "      <li>" \o ItemText(ItemsOf[i]) \o "</li>\n"]
        /\ \A c \in DOMAIN OnlyChild.Children :
               ListBody[Len(ItemsOf) + c]
                 = "      <li>" \o OnlyChild.Children[c].Properties["contains"].Value
                   \o "</li>\n"
        /\ OnlyChild.TagType = "lst-ord" =>
               /\ ChildLine = "    <ol>\n"
               /\ results[1][Len(results[1]) - Len(Epilogue) - 1] = "    </ol>\n"

\* An ordered list with items 1, 2, x and an item element after them.
C12_Witness ==
    /\ Len(results) >= 1 /\ IsItemsList
    /\ OnlyChild.TagType = "lst-ord"
    /\ ItemsOf = <<NumberValue("1"), NumberValue("2"), StringValue("x")>>
    /\ ListBody = <<"      <li>1</li>\n", "      <li>2</li>\n", "      <li>x</li>\n",
                    "      <li>T</li>\n">>


(***************************************************************************)
(* Properties of the lexer (lexer.go)                                      *)
(***************************************************************************)
\* The character at 0-based position i of the input, NUL past its end.
CharAt(i) == IF i < Len(lexer.input) THEN lexer.input[i + 1] ELSE NUL

Whitespace == {" ", "\t", "\r", "\n"}

\* The characters after which a [ opens an array.
ArrayTriggers == Digits \cup {"$", "\"", "]"} \cup Whitespace

\* C13: a [ becomes the array-opening token LBRACKET exactly when the
\* character right after it is a digit, $, ", ] or a whitespace character
\* (space, tab, carriage return, newline); in every other case, the [ at the
\* end of the input included, it begins a bracketed tag.
C13_ArrayStartIffTrigger ==
    \A i \in DOMAIN returned :
        (returned[i].tok.Type # EOF /\ CharAt(returned[i].from) = "[") =>
            (returned[i].tok.Type = LBRACKET
                <=> (returned[i].from + 1 < Len(lexer.input)
                     /\ CharAt(returned[i].from + 1) \in ArrayTriggers))

\* All tokens NextToken returns from lexer l up to the first EOF, as pairs of
\* type and literal.
RECURSIVE TokensFrom(_)
TokensFrom(l) ==
    LET r == LexNextToken(l)
    IN  IF r.tok.Type = EOF THEN <<<<EOF, "">>>>
        ELSE <<<<r.tok.Type, r.tok.Literal>>>> \o TokensFrom(r.l)

\* The positions of the whitespace NextToken skipped between tokens.
Gaps ==
    {p \in 0..(Len(lexer.input) - 1) :
        \E i \in DOMAIN returned : returned[i].called <= p /\ p < returned[i].from}

\* The inputs that differ from the input in one whitespace character between
\* two tokens.
GapVariants ==
    {[lexer.input EXCEPT ![p + 1] = w] : p \in Gaps, w \in Whitespace}

\* C20: NextToken never returns a NEWLINE token, and two inputs that differ
\* only in the whitespace between tokens give the same sequence of token
\* types and literals.
C20_WhitespaceInsignificant ==
    /\ \A i \in DOMAIN returned : returned[i].tok.Type # NEWLINE
    /\ EOFsReturned >= 1 =>
          \A text \in GapVariants : TokensFrom(New(text)) = TokensFrom(New(lexer.input))


(***************************************************************************)
(* Properties of property assignments (parser.go)                          *)
(***************************************************************************)
\* Inside an element the parser is at a property name, and the token after
\* it is not '='.
MissingEquals ==
    /\ InFrame("parseElement") /\ ElementLoopRuns
    /\ curToken.Type = IDENT /\ peekToken.Type # EQUALS

\* The column of the token k tokens after the current one; the EOF token
\* repeats at the end of the input.
ColumnAhead(k) ==
    IF curToken.Column + k <= Len(source) THEN curToken.Column + k ELSE Len(source) + 1

\* C14 as stated: a property name followed by a token other than '=' adds
\* one error, stores no value, and both the name and the unexpected token are
\* consumed before element parsing resumes.
C14_NameAndTokenConsumed ==
    [][MissingEquals =>
          /\ Len(errors') = Len(errors) + 1
          /\ pstack'[Len(pstack')].node.Properties = Top.node.Properties
          /\ curToken'.Column = ColumnAhead(2)]_vars

\* C14, amended: a property name followed by a token other than '=' adds one
\* error that names the property and the token found, stores no value, and
\* consumes the property name only: the unexpected token is the current
\* token when element parsing resumes.
C14_OnlyNameConsumed ==
    [][MissingEquals =>
          /\ errors' = Append(errors, "expected '=' after property name "
                                      \o curToken.Literal \o ", got " \o peekToken.Type)
          /\ pstack'[Len(pstack')].node.Properties = Top.node.Properties
          /\ curToken' = peekToken
          /\ curToken'.Column = ColumnAhead(1)]_vars

\* A paragraph whose property name was followed by its closing tag: the
\* error is recorded and the closing tag still closed the paragraph.
C14_Witness ==
    /\ ppc = "done"
    /\ "expected '=' after property name contains, got P_END" \in ErrorSet
    /\ \E i \in DOMAIN tagLog :
          /\ tagLog[i].open = "P_START" /\ tagLog[i].closed
          /\ source[tagLog[i].closeCol - 1] = Ident("contains")


(***************************************************************************)
(* Properties of unknown tags (lexer.go, parser.go)                        *)
(***************************************************************************)
\* The positions of the bracketed tags whose name is not a keyword.
UnknownTags ==
    {i \in DOMAIN source :
        source[i].lex = "tag" /\ source[i].text \notin OpenNames \cup CloseNames}

\* C15: a bracketed tag whose name is not in the keyword table is lexed as
\* an IDENT token and leads to at least one entry in the parser's error
\* list, wherever it occurs in the document.
C15_UnknownTagIsAnError ==
    /\ \A i \in UnknownTags : TokenOf(source[i], i).Type = IDENT
    /\ (ppc = "done" /\ UnknownTags # {}) => errors # <<>>


(***************************************************************************)
(* Properties of the indentation (generator.go)                            *)
(***************************************************************************)
\* The elements whose render call has begun and not returned: the nesting
\* depth, below its section, of the element rendered next.
OpenElements == Cardinality({k \in DOMAIN gstack : gstack[k].op = "endElement"})
InSection == \E k \in DOMAIN gstack : gstack[k].op = "endSection"

\* The next step renders an element that writes something.
RendersElement ==
    /\ gpc = "render" /\ gstack # <<>> /\ Head(gstack).op = "element"
    /\ ~StackOverflows(Head(gstack).node, labels)
    /\ generateElement(Head(gstack).node, 0, labels).open # <<>>

\* C16: inside a section the depth counter is 2 plus the number of render
\* calls in progress, so it has at the return of every element's render call
\* the value it had when the call began; and an element at depth d below its
\* section is written with 2 * (2 + d) leading spaces, whatever was rendered
\* before it.
C16_IndentBalanced ==
    /\ []((gpc = "render" /\ InSection) => indent = 2 + OpenElements)
    /\ [][RendersElement =>
             out'[Len(out) + 1]
               = Repeat("  ", 2 + OpenElements)
                 \o generateElement(Head(gstack).node, 0, labels).open[1]]_vars

\* The form of the last section is about to be rendered, after the lists and
\* the table of the section before it, with the counter back at 2.
C16_Witness ==
    /\ gpc = "render" /\ gstack # <<>> /\ Head(gstack).op = "element"
    /\ Head(gstack).node.TagType = "form"
    /\ OpenElements = 0 /\ indent = 2
    /\ \E k \in DOMAIN out : out[k] = "        <td>c1</td>\n"


(***************************************************************************)
(* Properties of the label registry (generator.go)                         *)
(***************************************************************************)
\* The elements that carry a label property of any kind.
Labelled == {j \in DOMAIN DocElements : "label" \in DOMAIN DocElements[j].Properties}

\* C17: when rendering begins, and from then on, the registry maps each
\* label name to the last element, in depth-first pre-order over the
\* sections (a parent before its children), that declares label with that
\* name as a string; an element whose label is not a string is not
\* registered; nothing is rendered before the collection is complete.
C17_RegistryHoldsLastDeclarer ==
    gpc = "render" =>
        /\ \A n \in DOMAIN labels :
              /\ Declaring(n) # {}
              /\ labels[n] = DocElements[Last(Declaring(n))]
        /\ \A j \in Labelled :
              LET l == DocElements[j].Properties["label"]
              IN  IF l.kind = "StringValue"
                  THEN l.Value \in DOMAIN labels
                  ELSE \A n \in DOMAIN labels : labels[n] = DocElements[j] => j \in Declaring(n)

\* Rendering is about to begin for a document whose first paragraph has the
\* number 7 as its label and whose second has the label a.
C17_Witness ==
    /\ gpc = "render" /\ out = Prologue /\ Len(results) = 0
    /\ Len(DocElements) = 2 /\ Labelled = {1, 2}
    /\ DocElements[1].Properties["label"] = NumberValue("7")
    /\ DOMAIN labels = {"a"} /\ labels["a"] = DocElements[2]


(***************************************************************************)
(* Properties of the colour declarations (generator.go)                    *)
(***************************************************************************)
\* The string a paragraph gives for a property, "" when it gives none.
Given(n) ==
    IF n \in DOMAIN OnlyChild.Properties /\ OnlyChild.Properties[n].kind = "StringValue"
    THEN OnlyChild.Properties[n].Value
    ELSE ""

IsColourParagraph ==
    /\ HasOnlyChild /\ OnlyChild.TagType = "p"
    /\ "contains" \in DOMAIN OnlyChild.Properties
    /\ DOMAIN OnlyChild.Properties
         \subseteq {"contains", "text_color", "color", "bg_color", "background"}
    /\ \A n \in DOMAIN OnlyChild.Properties : OnlyChild.Properties[n].kind = "StringValue"

BothColours == Given("text_color") # "" /\ Given("color") # ""
BothBackgrounds == Given("bg_color") # "" /\ Given("background") # ""

\* Zero or one declaration for a property.
Declared(css, n) == IF Given(n) = "" THEN <<>> ELSE <<css \o ": " \o Given(n)>>

\* The declarations in the order the documentation gives, the background
\* one under the CSS name css.
ColourDeclarations(css) ==
    Declared("color", "text_color") \o Declared("color", "color")
    \o Declared("background-color", "bg_color") \o Declared(css, "background")

RECURSIVE Terminated(_)
Terminated(decls) ==
    IF decls = <<>> THEN "" ELSE Head(decls) \o ";" \o Terminated(Tail(decls))

RECURSIVE Spaced(_)
Spaced(decls) ==
    IF Len(decls) <= 1 THEN Terminated(decls)
    ELSE Head(decls) \o "; " \o Spaced(Tail(decls))

ColourLine(css) ==
    "    <p style=\"" \o Spaced(ColourDeclarations(css)) \o "\">"
    \o Given("contains") \o "</p>\n"

\* C18: a paragraph with non-empty text_color and color has two color
\* declarations in its style attribute, the one of text_color first; one
\* with non-empty bg_color and background has the declaration of bg_color
\* before the one of background.
C18_SynonymsInOrder ==
    (Len(results) >= 1 /\ IsColourParagraph /\ (BothColours \/ BothBackgrounds)) =>
        ChildLine \in {ColourLine("background"), ColourLine("background-color")}

\* A paragraph with all four properties rendered with four declarations.
C18_Witness ==
    /\ Len(results) >= 1 /\ IsColourParagraph /\ BothColours /\ BothBackgrounds
    /\ ChildLine = "    <p style=\"color: red; color: blue; background-color: #eee; "
                   \o "background-color: #fff;\">X</p>\n"


(***************************************************************************)
(* Properties of code blocks (lexer.go)                                    *)
(***************************************************************************)
\* The 0-based position of the } that closes the block open at depth depth
\* when the text is read from position j on, the length of the input when
\* there is none.
RECURSIVE MatchFrom(_, _)
MatchFrom(j, depth) ==
    IF j >= Len(lexer.input) THEN Len(lexer.input)
    ELSE IF CharAt(j) = "{" THEN MatchFrom(j + 1, depth + 1)
    ELSE IF CharAt(j) = "}"
    THEN IF depth = 1 THEN j ELSE MatchFrom(j + 1, depth - 1)
    ELSE MatchFrom(j + 1, depth)

RECURSIVE TrimLeft(_)
TrimLeft(chars) ==
    IF chars # <<>> /\ Head(chars) \in Whitespace THEN TrimLeft(Tail(chars)) ELSE chars

RECURSIVE TrimRight(_)
TrimRight(chars) ==
    IF chars # <<>> /\ chars[Len(chars)] \in Whitespace
    THEN TrimRight(SubSeq(chars, 1, Len(chars) - 1))
    ELSE chars

\* The characters between the { at position i and its matching }.
Between(i) == SubSeq(lexer.input, i + 2, MatchFrom(i + 1, 1))

\* The returned tokens that begin at a {.
BraceTokens == {i \in DOMAIN returned : CharAt(returned[i].from) = "{"}

\* C19: a token that begins at a { is a CODEBLOCK whose literal is the text
\* between the { and the } that brings the brace depth back to zero, or the
\* end of the input when there is none, without the whitespace at its two
\* ends and with the inner braces as written; the lexer is then right after
\* that }.
C19_CodeBlockUpToMatchingBrace ==
    \A i \in BraceTokens :
        LET m == MatchFrom(returned[i].from + 1, 1)
        IN  /\ returned[i].tok.Type = CODEBLOCK
            /\ returned[i].tok.Literal = Concat(TrimRight(TrimLeft(Between(returned[i].from))))
            /\ returned[i].to = IF m < Len(lexer.input) THEN m + 1 ELSE m


(***************************************************************************)
(* Properties of arrays (parser.go)                                        *)
(***************************************************************************)
\* The lexeme at position i of the source, 1-based.
LexemeAt(i) == source[i]

\* The parser is about to parse a property whose value opens with [ ; the
\* property's name is the current token and stands at position k.
ArrayAhead(k) ==
    /\ InFrame("parseElement") /\ ElementLoopRuns
    /\ curToken.Type = IDENT /\ curToken.Column = k
    /\ k + 2 <= Len(source)
    /\ LexemeAt(k + 1) = Punct("=")
    /\ LexemeAt(k + 2) = Punct("[")

\* The position of the first ] after position i, one past the end of the
\* source when there is none.
FirstClose(i) ==
    IF \E j \in (i + 1)..Len(source) : LexemeAt(j) = Punct("]")
    THEN CHOOSE j \in (i + 1)..Len(source) :
            /\ LexemeAt(j) = Punct("]")
            /\ \A h \in (i + 1)..(j - 1) : LexemeAt(h) # Punct("]")
    ELSE Len(source) + 1

\* The value of a string, number or variable-reference lexeme.
ItemOf(lx) ==
    CASE lx.lex = "string" -> StringValue(lx.text)
      [] lx.lex = "number" -> NumberValue(lx.text)
      [] lx.lex = "dollar" -> VariableRef(lx.text)

\* The items among the lexemes at positions from..to, in order.
RECURSIVE ItemsBetween(_, _)
ItemsBetween(from, to) ==
    IF from > to THEN <<>>
    ELSE (IF LexemeAt(from).lex \in {"string", "number", "dollar"}
          THEN <<ItemOf(LexemeAt(from))>> ELSE <<>>)
         \o ItemsBetween(from + 1, to)

\* C21: parsing a property whose value opens with [ stores an array that
\* holds, in source order, exactly the strings, numbers and variable
\* references between the [ and the first ] (or the end of the input); every
\* other token there is passed over and no error is recorded, so the array
\* holds no array and no code block; the parser is then past that ].
C21_ArrayHoldsTheItems ==
    [][\A k \in 1..Len(source) :
          ArrayAhead(k) =>
              LET close == FirstClose(k + 2)
                  stored == pstack'[Len(pstack)].node.Properties[curToken.Literal]
              IN  /\ stored = ArrayValue(ItemsBetween(k + 3, close - 1))
                  /\ \A i \in DOMAIN stored.Values :
                        stored.Values[i].kind
                           \in {"StringValue", "NumberValue", "VariableRef"}
                  /\ errors' = errors
                  /\ curToken'.Column = IF close <= Len(source) THEN close + 1 ELSE close]_vars

\* The array of [ "a" [ 1 : the inner [ is passed over and both items kept.
C21_Witness ==
    /\ source = <<Tag("mid-page-start"), Tag("lst-ord"), Ident("items"), Punct("="),
                  Punct("["), Str("a"), Punct("["), Num("1")>>
    /\ InFrame("parseElement")
    /\ "items" \in DOMAIN Top.node.Properties
    /\ Top.node.Properties["items"] = ArrayValue(<<StringValue("a"), NumberValue("1")>>)
    /\ curToken.Type = EOF /\ errors = <<>>


(***************************************************************************)
(* Termination of the parser (lexer.go, parser.go)                         *)
(***************************************************************************)
\* A step of the parser inside ParseDocument.
ParserStep == ppc = "parsing" /\ <<curToken, pstack, errors>>' # <<curToken, pstack, errors>>

\* The step passes at least one token.
ConsumesToken == curToken'.Column > curToken.Column

\* The step returns from parsePageSection or parseElement.
LeavesLoop == Len(pstack') < Len(pstack)

\* ParseDocument has returned, or was never called.
ParseEnded == ppc = "done"

\* A bound on the parser steps still to come: two for each token not yet
\* passed, one for each call that has not returned, one for ParseDocument.
StepsLeft ==
    2 * (Len(source) + 1 - curToken.Column) + Len(pstack) + (IF ParseEnded THEN 0 ELSE 1)

\* C22: parsing ends on every input: a NextToken call that returns a token
\* other than EOF moves the lexer on by at least one character, and every
\* iteration of a loop of the parser passes at least one token or leaves
\* the loop; so every step of the parser lowers a bound that is never
\* negative.
C22_ParsingTerminates ==
    /\ [](\A i \in DOMAIN returned :
             returned[i].tok.Type # EOF => returned[i].to > returned[i].called)
    /\ [][ParserStep => (ConsumesToken \/ LeavesLoop \/ ParseEnded')]_vars
    /\ [][ParserStep => StepsLeft' < StepsLeft]_vars
    /\ [](StepsLeft >= 0)

\* A property name with no '=' after it has been passed with an error.
C22_Witness ==
    /\ ppc = "parsing" /\ Len(errors) = 1 /\ Len(pstack) = 2
    /\ source = <<Tag("mid-page-start"), Tag("p-start"), Ident("contains"),
                  Ident("contains")>>
    /\ curToken.Column = 4 /\ StepsLeft = 5


(***************************************************************************)
(* Properties of error recovery (parser.go)                                *)
(***************************************************************************)
\* The source with lexeme lx put in at position i.
Inserted(i, lx) == SubSeq(source, 1, i - 1) \o <<lx>> \o SubSeq(source, i, Len(source))

\* The closing tags of elements.
ElementCloseNames == {pr[2] : pr \in {q \in TagPairs : q[1] \notin SectionOpenNames}}

\* The ways to read the source as a well-nested document from which the
\* closing tag of one element is missing: the position of the opening tag of
\* that element.
MissingCloseOf ==
    {pr[2] : pr \in
        UNION {{q \in Scan(Inserted(i, Tag(c))).pairs : q[1] = "parseElement" /\ q[3] = i} :
                  <<i, c>> \in {ic \in (1..(Len(source) + 1)) \X ElementCloseNames :
                                   WellNested(Inserted(ic[1], Tag(ic[2])))}}}

\* C23: when one element lacks its closing tag and the document is
\* otherwise well-formed, exactly one error is recorded, the one for that
\* element; the elements and the section around it, whose closing tags are
\* in the source, are not reported.
C23_OneErrorForOneMissingTag ==
    (ppc = "done" /\ MissingCloseOf # {}) =>
        /\ Len(errors) = 1
        /\ {tagLog[i].openCol : i \in Unclosed} = MissingCloseOf


(***************************************************************************)
(* Properties of nested elements (generator.go)                            *)
(***************************************************************************)
\* The next step renders an element, whether it writes something or not.
RendersNode ==
    /\ gpc = "render" /\ gstack # <<>> /\ Head(gstack).op = "element"
    /\ ~StackOverflows(Head(gstack).node, labels)

\* C24: whatever the kind of an element, the elements nested in it are
\* rendered inside its markup: once its opening is written its children are
\* the next to be rendered, in order, before anything that follows it.
C24_ChildrenRenderedInParent ==
    [][RendersNode =>
          LET children == Head(gstack).node.Children
          IN  /\ Len(gstack') >= Len(children)
              /\ \A i \in DOMAIN children :
                    /\ gstack'[i].op = "element"
                    /\ gstack'[i].node = children[i]]_vars


(***************************************************************************)
(* Properties of a Generator used again (generator.go)                     *)
(***************************************************************************)
\* C25: the output of Generate for a document is the same on a Generator
\* that has generated a different document before as on a fresh one: the
\* third output of a Generator given a document, a different one and the
\* first again equals its first output.
C25_EarlierDocumentsLeaveNoTrace ==
    Len(results) = 3 => results[3] = results[1]


(***************************************************************************)
(* Properties of headings (generator.go)                                   *)
(***************************************************************************)
IsHeading ==
    /\ HasOnlyChild /\ OnlyChild.TagType = "h"
    /\ DOMAIN OnlyChild.Properties \subseteq {"contains", "level", "size", "color"}
    /\ "contains" \in DOMAIN OnlyChild.Properties
    /\ OnlyChild.Properties["contains"].kind = "StringValue"

\* The value a heading gives for a property, "" when it gives none.
HeadingGives(n) ==
    IF n \in DOMAIN OnlyChild.Properties THEN OnlyChild.Properties[n].Value ELSE ""

\* The style attributes of the documented form d1; d2; ...; dn; whose
\* declarations are taken from the heading's size and colour.
HeadingDeclarations ==
    {"color: " \o HeadingGives("color"), "font-size: " \o HeadingGives("size")}

WellFormedStyles ==
    {Spaced(ds) : ds \in SeqsUpTo(HeadingDeclarations, 2) \ {<<>>}}

\* A heading line with tag suffix lv and style attribute st.
HeadingLine(lv, attr) ==
    "    <h" \o lv \o attr \o ">" \o HeadingGives("contains") \o "</h" \o lv \o ">\n"

\* The heading's tag suffix as the generator chose it.
LevelTexts == {"1", "2", "6", "7", "0", "big"}

\* C26: a style attribute has the form d1; d2; ...; dn; with n >= 1
\* declarations that are not empty, each followed by one semicolon; this
\* holds for a heading that has a size and another style property as well.
C26_StyleAttributeWellFormed ==
    (Len(results) >= 1 /\ IsHeading
        /\ (HeadingGives("size") # "" \/ HeadingGives("color") # "")) =>
        ChildLine \in {HeadingLine(lv, " style=\"" \o st \o "\"") :
                          lv \in LevelTexts, st \in WellFormedStyles}


\* The style attribute of a heading line, whatever its form.
StyleTexts ==
    {""} \cup {" style=\"" \o st \o "\"" : st \in WellFormedStyles}
    \cup {" style=\"" \o a \o ";; " \o b \o ";\"" : a, b \in HeadingDeclarations}

DocumentedLevels == {"1", "2", "3", "4", "5", "6"}

\* C30: a heading is written with the tags h1 to h6: with h1 when it has no
\* level property, and otherwise with a level of the documented range 1 to 6,
\* whatever the value of the level property.
C30_HeadingLevelInRange ==
    (Len(results) >= 1 /\ IsHeading) =>
        ChildLine \in {HeadingLine(lv, attr) :
                          lv \in IF "level" \in DOMAIN OnlyChild.Properties
                                 THEN DocumentedLevels ELSE {"1"},
                          attr \in StyleTexts}


(***************************************************************************)
(* Properties of the lexer's cursor (lexer.go)                             *)
(***************************************************************************)
\* C27: after New and after every NextToken call the cursor satisfies
\* 0 <= position <= len(input) and readPosition = position + 1, and the
\* substring the next call takes of the input has bounds
\* start <= end <= len(input).
C27_CursorInsideInput ==
    /\ 0 <= lexer.position /\ lexer.position <= Len(lexer.input)
    /\ lexer.readPosition = lexer.position + 1
    /\ 0 <= inputSlice(lexer).start
    /\ inputSlice(lexer).start <= inputSlice(lexer).end
    /\ inputSlice(lexer).end <= Len(lexer.input)
    /\ \A i \in DOMAIN returned :
          /\ 0 <= returned[i].called /\ returned[i].called <= returned[i].from
          /\ returned[i].from <= returned[i].to /\ returned[i].to <= Len(lexer.input)

\* The text "a is a string that runs to the end of the input: the cursor
\* stops at the length of the input.
C27_Witness ==
    /\ mpc = "lexer" /\ lexer.input = <<"\"", "a">> /\ Len(returned) = 1
    /\ returned[1].tok.Type = STRING_TOK /\ returned[1].tok.Literal = "a"
    /\ lexer.position = 2 /\ lexer.readPosition = 3

\* C28: once NextToken has returned EOF, every later call returns EOF again
\* and leaves position, read position, current character, line and column
\* as they are.
C28_EOFForEver ==
    [][EOFsReturned >= 1 =>
          /\ returned'[Len(returned')].tok.Type = EOF
          /\ lexer' = lexer]_vars

\* EOF has been returned twice for a text that ends in whitespace.
C28_Witness ==
    /\ mpc = "lexer" /\ lexer.input = <<"a", " ", "\n">> /\ Len(returned) = 3
    /\ returned[2].tok.Type = EOF /\ returned[3].tok.Type = EOF
    /\ returned[3].tok = returned[2].tok
    /\ lexer.position = 3 /\ lexer.line = 2

\* C29: EOF is returned only when the whole input has been read, that is
\* with the cursor at the length of the input, a zero byte in the input
\* notwithstanding; the tokens and the whitespace before them cover the
\* input without a gap.
C29_EOFOnlyAtEndOfInput ==
    \A i \in DOMAIN returned :
        /\ returned[i].called = IF i = 1 THEN 0 ELSE returned[i - 1].to
        /\ \A p \in returned[i].called..(returned[i].from - 1) : CharAt(p) \in Whitespace
        /\ returned[i].tok.Type = EOF => returned[i].to = Len(lexer.input)

====
